---- MODULE Spec2Model ----
(***************************************************************************)
(* Forge: the install orchestration (ForgeCore.install), the Node and the  *)
(* Python adapters' dependency resolution, artifact download, package      *)
(* installation and lock file creation, modelled as state machines.        *)
(*                                                                         *)
(* A version "1.0.0", "2.0.0", ... is the number 1, 2, ...; a version      *)
(* range is a record ("*" is Wildcard, "1.0.0" / "==1.0.0" is Eq(1),       *)
(* ">=2.0.0" is Ge(2), ">=1.0.0,<2.0.0" is GeLt(1, 2)); the string          *)
(* `name@range` is the pair <<name,                                        *)
(* range>>.  A JavaScript Map is a sequence of [key, node] entries in      *)
(* insertion order.  0 stands for null / "no version".                     *)
(***************************************************************************)
EXTENDS Integers, Sequences, FiniteSets, TLC

\* ------------------------------------------------------------------ bounds
\* Versions published per package are 1..MaxVer.
MaxVer == 2

\* The number of ForgeCore invocations (install, remove, getPackageInfo) in
\* one behaviour.
MaxRuns == 2

\* The recursion ceiling of NodePlugin.resolveDependency (depth > 100).
MaxDepth == 100

Names == {"A", "B", "C"}
Versions == 1..MaxVer

Wildcard == [op |-> "any", v |-> 0, hi |-> 0]
Eq(v) == [op |-> "eq", v |-> v, hi |-> 0]
Ge(v) == [op |-> "ge", v |-> v, hi |-> 0]
\* a comparator list: ">=lo,<hi" for PyPI, ">=lo <hi" for npm
GeLt(lo, hi) == [op |-> "gelt", v |-> lo, hi |-> hi]

\* A Dependency of core/types.ts (scope and registry are not read by the
\* resolution, download or install code).
Dep(name, range) == [name |-> name, versionRange |-> range]

\* One dependency as the registry's metadata declares it: an entry of npm's
\* `dependencies` object, or a line of PyPI's requires_dist, e.g.
\* `name[extras] (range); marker`.  marker is "" (none), "extra" (the line
\* has `extra == ...`) or "platform" (`sys_platform` / `platform_...`);
\* brackets says whether the line names extras in brackets.
Req(name, range, marker, brackets) ==
  [name |-> name, versionRange |-> range, marker |-> marker, brackets |-> brackets,
   dot |-> FALSE]
Plain(name, range) == Req(name, range, "", FALSE)
\* A requires_dist entry for the namespace package <name>.test, as in
\* "jaraco.test>=1.0": name is the part of the package name before the dot.
Dotted(name, range) == [Req(name, range, "", FALSE) EXCEPT !.dot = TRUE]
\* The text ".test>=1.0" as a version range: it starts with none of the
\* operators an adapter knows.
DotSpec(range) == [op |-> "dot", v |-> range.v, hi |-> range.hi]

Max(S) == CHOOSE x \in S : \A y \in S : y <= x

\* ------------------------------------------------------- Map<string, node>
MapHas(m, k) == \E i \in 1..Len(m) : m[i].key = k
MapSet(m, k, n) ==
  IF MapHas(m, k)
  THEN [i \in 1..Len(m) |-> IF m[i].key = k THEN [key |-> k, node |-> n] ELSE m[i]]
  ELSE Append(m, [key |-> k, node |-> n])

\* ---------------------------------------------------------------- registry
\* registry[n].versions: the versions the registry publishes for n ({} when
\* the registry does not know n: the HTTP request fails).
\* registry[n].dependencies[v]: the dependencies that version declares.
\* registry[n].packagetype: the kind of artifact PyPI offers for n.

\* semver.satisfies(version, range)
Satisfies(version, range) ==
  CASE range.op = "any" -> TRUE
    [] range.op = "eq" -> version = range.v
    [] range.op = "ge" -> version >= range.v
    [] range.op = "gelt" -> version >= range.v /\ version < range.hi

\* semver.maxSatisfying(versions, range); 0 is null
maxSatisfying(versions, range) ==
  LET ok == {v \in versions : Satisfies(v, range)}
  IN IF ok = {} THEN 0 ELSE Max(ok)

NoInfo == [name |-> "", version |-> 0, dependencies |-> <<>>]

\* NodePlugin.getPackageVersionInfo: every failure (unknown package, no
\* matching version) is caught and turned into null.
getPackageVersionInfo(reg, name, versionRange) ==
  IF name \notin DOMAIN reg \/ reg[name].versions = {}
  THEN NoInfo
  ELSE LET matchingVersion == maxSatisfying(reg[name].versions, versionRange)
       IN IF matchingVersion = 0
          THEN NoInfo
          ELSE [name |-> name, version |-> matchingVersion,
                dependencies |-> reg[name].dependencies[matchingVersion]]

\* NodePlugin.convertDependencies: (name, range) entries to Dependency[]
convertDependencies(deps) ==
  [i \in 1..Len(deps) |-> Dep(deps[i].name, deps[i].versionRange)]

\* const depKey = `${dependency.name}@${dependency.versionRange}`
DepKey(dependency) == <<dependency.name, dependency.versionRange>>

VARIABLES
  plugin,      \* the adapter in use: "node" or "python"
  registry,    \* the remote registry (fixed during a behaviour)
  manifest,    \* the manifest handed to resolveDependencies
  graph,       \* DependencyGraph.nodes
  visited,     \* resolveDependencies: visited
  resolving,   \* resolveDependencies: resolving
  stack,       \* the active resolveDependency calls, root call first
  rstate,      \* "idle" | "running" | "returned" | "threw"
  rerr,        \* the error resolveDependencies threw: "" | "notfound" | "circular"
  cycleHit,    \* history: a key was requested again while on the active path
  failDepth,   \* history: recursion depth of the edge that threw (-1: none)
  failName,    \* history: the package name of the edge that threw
  queried,     \* history: the keys the registry was queried for, in order
  pc,          \* where ForgeCore.install is: "idle" | "resolve" | "fetch" |
               \*   "fetched" | "install" | "lock" | "done" | "failed" | "killed"
  opts,        \* the InstallOptions of the invocation
  disk,        \* the manifest files of the working directory, per format
  cache,       \* the cache directory: what is at each artifact path
  target,      \* the install location per format (node_modules, site-packages)
  lock,        \* the lock file per format
  venv,        \* whether the Python virtual environment exists
  batch,       \* downloadPackages: the packages of the batch
  task,        \* downloadPackages: the state of each package's fetch task
  paths,       \* the packagePaths handed to installPackages
  inst,        \* installPackages: loop index, installed, errors (and history)
  result,      \* the InstallResult that install returned
  hist,        \* history of the invocation (what was called, snapshots)
  sel,         \* version selection: the inputs and what each adapter selected
  found,       \* the last ForgeCore.search call: its inputs and what it returned
  config,      \* ForgeConfig: pluginPriority (defined says whether it is set)
  cwd,         \* the working directory: what each adapter's canHandle does on it
  core,        \* history of the last ForgeCore operation: how the adapter was
               \*   selected, which adapter operations it called
  plugins      \* DefaultPluginManager.plugins: the registered adapters, in
               \*   registration order

resolveVars ==
  <<graph, visited, resolving, stack, rstate, rerr, cycleHit, failDepth, failName,
    queried>>

fsVars == <<cache, target, lock, venv>>

installVars ==
  <<pc, opts, disk, cache, target, lock, venv, batch, task, paths, inst, result, hist>>

pmVars == <<config, cwd, core, plugins>>

vars == <<plugin, registry, manifest, resolveVars, installVars, sel, found, pmVars>>

RootKey == <<"", Wildcard>>

\* resolveDependencies, lines 144-148: dependencies, devDependencies and
\* optionalDependencies are resolved, peerDependencies are not.
allDependencies(m) ==
  m.dependencies \o m.devDependencies \o m.optionalDependencies

RootFrame(m) == [key |-> RootKey, todo |-> allDependencies(m), depth |-> -1]

\* PythonPlugin.resolveDependencies line 834: only manifest.dependencies
PythonRootFrame(m) == [key |-> RootKey, todo |-> m.dependencies, depth |-> -1]

TopFrame == stack[Len(stack)]

\* The stack with the head of the top frame's todo list removed: the loop of
\* the caller moves to its next dependency once the call returns.
Advance(s) ==
  [s EXCEPT ![Len(s)] = [@ EXCEPT !.todo = Tail(@)]]

FrameKeys(s) == {s[i].key : i \in 1..Len(s)} \ {RootKey}

\* line 478: if (visited.has(depKey) || depth > 100) return;
AlreadyVisitedMut(vis, depKey, depth) == depKey \in vis
AlreadyVisited(vis, depKey, depth) == depKey \in vis \/ depth > MaxDepth

\* line 517: visited.add(depKey), before the recursion into the sub-dependencies
VisitedAddMut(vis, depKey) == vis
VisitedAdd(vis, depKey) == vis \cup {depKey}

\* line 516: graph.nodes.set(resolvedPackage.name, node)
NodeGraphKeyMut(resolvedPackage, depKey) == depKey
NodeGraphKey(resolvedPackage, depKey) == resolvedPackage.name

\* line 532, in the finally block: resolving.delete(depKey)
ResolvingDeleteMut(res, depKey) == res
ResolvingDelete(res, depKey) == res \ {depKey}

\* One call of NodePlugin.resolveDependency up to its recursion (lines
\* 476-517), for the next dependency of the innermost active call.
NodeResolveDependency ==
  /\ plugin = "node"
  /\ pc = "resolve"
  /\ rstate = "running"
  /\ stack # <<>>
  /\ TopFrame.todo # <<>>
  /\ LET dependency == Head(TopFrame.todo)
         depth == TopFrame.depth + 1
         depKey == DepKey(dependency)
         packageInfo == getPackageVersionInfo(registry, dependency.name,
                                              dependency.versionRange)
         resolvedPackage == [name |-> packageInfo.name,
                             version |-> packageInfo.version,
                             downloadUrl |-> ".tgz",
                             dependencies |-> convertDependencies(packageInfo.dependencies)]
         node == [package |-> resolvedPackage,
                  dependencies |-> [i \in 1..Len(packageInfo.dependencies) |->
                                      packageInfo.dependencies[i].name]]
     IN IF AlreadyVisited(visited, depKey, depth)
        THEN \* return
             /\ stack' = Advance(stack)
             /\ cycleHit' = (cycleHit \/ depKey \in resolving)
             /\ UNCHANGED <<graph, visited, resolving, rstate, rerr, failDepth, failName,
                            queried>>
        ELSE IF depKey \in resolving
        THEN \* throw new Error(`Circular dependency detected`): every active
             \* call's finally block removes its key, resolveDependencies rejects
             /\ resolving' = resolving \ FrameKeys(stack)
             /\ stack' = <<>>
             /\ rstate' = "threw"
             /\ rerr' = "circular"
             /\ failDepth' = depth
             /\ failName' = dependency.name
             /\ UNCHANGED <<graph, visited, cycleHit, queried>>
        ELSE IF packageInfo = NoInfo
        THEN \* throw new Error(`Package ... not found`), through every finally
             /\ resolving' = (resolving \cup {depKey}) \ (FrameKeys(stack) \cup {depKey})
             /\ stack' = <<>>
             /\ rstate' = "threw"
             /\ rerr' = "notfound"
             /\ failDepth' = depth
             /\ failName' = dependency.name
             /\ queried' = Append(queried, depKey)
             /\ UNCHANGED <<graph, visited, cycleHit>>
        ELSE /\ resolving' = resolving \cup {depKey}
             /\ queried' = Append(queried, depKey)
             /\ graph' = MapSet(graph, NodeGraphKey(resolvedPackage, depKey), node)
             /\ visited' = VisitedAdd(visited, depKey)
             /\ stack' = Append(Advance(stack),
                                [key |-> depKey, todo |-> resolvedPackage.dependencies,
                                 depth |-> depth])
             /\ UNCHANGED <<rstate, rerr, cycleHit, failDepth, failName>>
  /\ UNCHANGED <<sel, found, pmVars, plugin, registry, manifest, installVars>>

\* The end of one resolveDependency call: its loop over the sub-dependencies
\* is over and the finally block runs (line 532: resolving.delete(depKey)).
ResolveReturn ==
  /\ pc = "resolve"
  /\ rstate = "running"
  /\ Len(stack) > 1
  /\ TopFrame.todo = <<>>
  /\ resolving' = ResolvingDelete(resolving, TopFrame.key)
  /\ stack' = SubSeq(stack, 1, Len(stack) - 1)
  /\ UNCHANGED <<sel, found, pmVars, plugin, registry, manifest, graph, visited, rstate, rerr,
                 cycleHit, failDepth, failName, queried, installVars>>

\* resolveDependencies line 165: return graph
ResolveFinish ==
  /\ pc = "resolve"
  /\ rstate = "running"
  /\ Len(stack) = 1
  /\ TopFrame.todo = <<>>
  /\ rstate' = "returned"
  /\ stack' = <<>>
  /\ UNCHANGED <<sel, found, pmVars, plugin, registry, manifest, graph, visited, resolving, rerr,
                 cycleHit, failDepth, failName, queried, installVars>>

\* ------------------------------------------------- the Python resolution
\* PythonPlugin.compareVersions
compareVersions(a, b) == IF a > b THEN 1 ELSE IF a < b THEN -1 ELSE 0

\* availableVersions.sort((a, b) => compareVersions(b, a))[0] || null
Latest(versions) ==
  IF versions = {}
  THEN 0
  ELSE CHOOSE x \in versions : \A y \in versions : compareVersions(x, y) >= 0

\* versionRange.substring(2).trim() of a range that starts with ">=", as
\* compareVersions reads it: the text is split at the dots and each part
\* goes through parseInt, so ">=1.0.0,<2.0.0" gives the parts 1, 0,
\* parseInt("0,<2") = 0, 0, 0: the version of the first comparator.
minVersion(versionRange) == versionRange.v

\* PythonPlugin.findBestVersion
findBestVersion(availableVersions, versionRange) ==
  CASE versionRange.op = "any" -> Latest(availableVersions)
    [] versionRange.op = "eq" ->
         IF versionRange.v \in availableVersions THEN versionRange.v ELSE 0
    [] versionRange.op \in {"ge", "gelt"} ->
         \* versionRange.startsWith('>=')
         Latest({v \in availableVersions :
                   compareVersions(v, minVersion(versionRange)) >= 0})
    [] OTHER -> Latest(availableVersions)

NoPyInfo == [name |-> "", version |-> 0, requires_dist |-> <<>>, packagetype |-> ""]

\* PythonPlugin.fetchPackageInfo: info.requires_dist is what the JSON API
\* gives for the project, that is for its latest release; info.version is
\* overwritten with the selected version.
fetchPackageInfo(reg, name, versionRange) ==
  IF name \notin DOMAIN reg \/ reg[name].versions = {}
  THEN NoPyInfo
  ELSE LET bestVersion == findBestVersion(reg[name].versions, versionRange)
       IN IF bestVersion = 0
          THEN NoPyInfo
          ELSE [name |-> name, version |-> bestVersion,
                requires_dist |-> reg[name].dependencies[Latest(reg[name].versions)],
                packagetype |-> reg[name].packagetype]

\* PythonPlugin.getBestDownloadUrl: the suffix of the URL it returns
getBestDownloadUrl(packageInfo) ==
  IF packageInfo.packagetype = "bdist_wheel" THEN ".whl" ELSE ".tar.gz"

NoDep == [name |-> "", versionRange |-> Wildcard]

\* PythonPlugin.parseRequiresDist
parseRequiresDistMut(reqDist) ==
  Dep(reqDist.name, IF reqDist.dot THEN DotSpec(reqDist.versionRange)
                    ELSE reqDist.versionRange)
parseRequiresDist(reqDist) ==
  LET \* packageSpec.match(/^([a-zA-Z0-9_-]+)\s*(.*)$/): the first group ends
      \* before a dot, the second group takes the dot and all that follows
      name == reqDist.name
      versionSpec == IF reqDist.dot THEN DotSpec(reqDist.versionRange)
                     ELSE reqDist.versionRange
      \* name.includes('.'): the first group never holds a dot
      nameIncludesDot == FALSE
  IN IF reqDist.marker = "extra" THEN NoDep
     ELSE IF reqDist.marker = "platform" THEN NoDep
     ELSE IF nameIncludesDot THEN NoDep
     ELSE IF reqDist.brackets THEN NoDep
     ELSE Dep(name, versionSpec)

\* resolveDirectDependency lines 871-879
ParsedDependencies(requires_dist) ==
  SelectSeq([i \in 1..Len(requires_dist) |-> parseRequiresDist(requires_dist[i])],
            LAMBDA d : d # NoDep)

\* One call of PythonPlugin.resolveDirectDependency up to its recursion.
PythonResolveDirectDependency ==
  /\ plugin = "python"
  /\ pc = "resolve"
  /\ rstate = "running"
  /\ stack # <<>>
  /\ TopFrame.todo # <<>>
  /\ LET dep == Head(TopFrame.todo)
         fullKey == DepKey(dep)
         packageInfo == fetchPackageInfo(registry, dep.name, dep.versionRange)
         dependencies == ParsedDependencies(packageInfo.requires_dist)
         resolvedPackage == [name |-> packageInfo.name,
                             version |-> packageInfo.version,
                             downloadUrl |-> getBestDownloadUrl(packageInfo),
                             dependencies |-> dependencies]
         node == [package |-> resolvedPackage,
                  dependencies |-> [i \in 1..Len(dependencies) |-> DepKey(dependencies[i])]]
     IN IF MapHas(graph, fullKey)
        THEN \* already processed: return
             /\ stack' = Advance(stack)
             /\ UNCHANGED <<graph, queried>>
        ELSE IF packageInfo = NoPyInfo
        THEN \* fetchPackageInfo gave nothing: return (lines 862-865, 902-904)
             /\ stack' = Advance(stack)
             /\ queried' = Append(queried, fullKey)
             /\ UNCHANGED graph
        ELSE /\ graph' = MapSet(graph, fullKey, node)
             /\ queried' = Append(queried, fullKey)
             /\ stack' = Append(Advance(stack),
                                [key |-> fullKey, todo |-> dependencies,
                                 depth |-> TopFrame.depth + 1])
  /\ UNCHANGED <<sel, found, pmVars, plugin, registry, manifest, visited, resolving, rstate, rerr,
                 cycleHit, failDepth, failName, installVars>>

\* ---------------------------------------------------- DefaultPluginManager
\* The adapters that the constructor of ForgeCore registers, in registration
\* order: "node" is the NodePlugin, "python" the PythonPlugin.
Plugins == <<"node", "python">>

\* An adapter of a third party, handed to ForgeCore.registerPlugin: it names
\* "node" among its formats, as the NodePlugin does.
ThirdParty == "yarn"

supportedFormats(p) ==
  CASE p = "node" -> {"node", "nodejs", "javascript"}
    [] p = "python" -> {"python", "pip"}
    [] p = ThirdParty -> {"yarn", "node"}

NoPlugin == ""

\* formatPlugins.get(format) || null; register() sets formatPlugins for each
\* supported format, a later registration replacing an earlier one.
getPluginByFormat(format) ==
  LET I == {i \in 1..Len(plugins) : format \in supportedFormats(plugins[i])}
  IN IF I = {} THEN NoPlugin ELSE plugins[Max(I)]

DefaultPriority == <<"npm", "pip", "maven">>

\* const pluginPriority = this.config?.pluginPriority || ['npm', 'pip', 'maven']
pluginPriorityMut(cfg) == DefaultPriority
pluginPriority(cfg) ==
  IF cfg.defined THEN cfg.pluginPriority ELSE DefaultPriority

\* try { ... await plugin.canHandle(directory) ... } catch (error) { continue }:
\* what the loop sees of canHandle's outcome "true" | "false" | "throws"
CaughtMut(outcome) == outcome
Caught(outcome) == IF outcome = "throws" THEN "false" ELSE outcome

\* if (await plugin.canHandle(directory)) return plugin
CanHandleTrueMut(outcome) == TRUE
CanHandleTrue(outcome) == outcome = "true"

\* The first loop of getPluginForDirectory (lines 33-45), from the i-th
\* format name of the priority list; seen lists the adapters consulted.
RECURSIVE ScanPriority(_, _, _, _)
ScanPriority(prio, answers, i, seen) ==
  IF i > Len(prio)
  THEN [plugin |-> NoPlugin, threw |-> FALSE, seen |-> seen]
  ELSE LET p == getPluginByFormat(prio[i])
       IN IF p = NoPlugin
          THEN ScanPriority(prio, answers, i + 1, seen)
          ELSE IF Caught(answers[p]) = "throws"
          THEN [plugin |-> NoPlugin, threw |-> TRUE, seen |-> Append(seen, p)]
          ELSE IF CanHandleTrue(Caught(answers[p]))
          THEN [plugin |-> p, threw |-> FALSE, seen |-> Append(seen, p)]
          ELSE ScanPriority(prio, answers, i + 1, Append(seen, p))

\* lines 50-53: pluginPriority.some(f => plugin.supportedFormats.includes(f))
isInPriorityMut(prio, p) == FALSE
isInPriority(prio, p) == \E i \in 1..Len(prio) : prio[i] \in supportedFormats(p)

\* The second loop (lines 48-63), over this.plugins.values() from the i-th.
RECURSIVE ScanRemaining(_, _, _, _)
ScanRemaining(prio, answers, i, seen) ==
  IF i > Len(plugins)
  THEN [plugin |-> NoPlugin, threw |-> FALSE, seen |-> seen]
  ELSE LET p == plugins[i]
       IN IF isInPriority(prio, p)
          THEN ScanRemaining(prio, answers, i + 1, seen)
          ELSE IF Caught(answers[p]) = "throws"
          THEN [plugin |-> NoPlugin, threw |-> TRUE, seen |-> Append(seen, p)]
          ELSE IF CanHandleTrue(Caught(answers[p]))
          THEN [plugin |-> p, threw |-> FALSE, seen |-> Append(seen, p)]
          ELSE ScanRemaining(prio, answers, i + 1, Append(seen, p))

\* DefaultPluginManager.getPluginForDirectory
getPluginForDirectory(cfg, answers) ==
  LET prio == pluginPriority(cfg)
      first == ScanPriority(prio, answers, 1, <<>>)
      rest == ScanRemaining(prio, answers, 1, <<>>)
  IN IF first.plugin # NoPlugin \/ first.threw
     THEN [plugin |-> first.plugin, threw |-> first.threw, priority |-> prio,
           viaPriority |-> first.seen, viaRemaining |-> <<>>]
     ELSE [plugin |-> rest.plugin, threw |-> rest.threw, priority |-> prio,
           viaPriority |-> first.seen, viaRemaining |-> rest.seen]

\* if (options.format)
HasFormatMut(format) == FALSE
HasFormat(format) == format # ""

\* ForgeCore.install lines 212-228, ForgeCore.remove lines 304-320: the
\* adapter by format override or by directory detection.  error is
\* "unsupported" (Unsupported format), "noplugin" (No plugin found) or
\* "threw" (an error of getPluginForDirectory).
SelectPlugin(format, cfg, answers) ==
  IF HasFormat(format)
  THEN LET p == getPluginByFormat(format)
       IN [plugin |-> p, error |-> IF p = NoPlugin THEN "unsupported" ELSE "",
           detected |-> FALSE, priority |-> <<>>,
           viaPriority |-> <<>>, viaRemaining |-> <<>>]
  ELSE LET d == getPluginForDirectory(cfg, answers)
       IN [plugin |-> d.plugin,
           error |-> IF d.threw THEN "threw"
                     ELSE IF d.plugin = NoPlugin THEN "noplugin" ELSE "",
           detected |-> TRUE, priority |-> d.priority,
           viaPriority |-> d.viaPriority, viaRemaining |-> d.viaRemaining]

\* utils/config.ts line 51: the priority list of the default configuration
DefaultConfig == [defined |-> TRUE, pluginPriority |-> <<"node", "python", "maven">>]

NoCore ==
  [kind |-> "", format |-> "", plugin |-> NoPlugin, error |-> "",
   detected |-> FALSE, priority |-> <<>>, viaPriority |-> <<>>,
   viaRemaining |-> <<>>, calls |-> <<>>, setCalled |-> FALSE, setP |-> <<>>,
   update |-> <<>>]

\* The history record of an operation of the given kind that selected its
\* adapter as s says and called the adapter operations calls.
CoreOf(kind, format, s, calls) ==
  [kind |-> kind, format |-> format, plugin |-> s.plugin, error |-> s.error,
   detected |-> s.detected, priority |-> s.priority,
   viaPriority |-> s.viaPriority, viaRemaining |-> s.viaRemaining,
   calls |-> calls, setCalled |-> core.setCalled, setP |-> core.setP,
   update |-> <<>>]

\* --------------------------------------------------------- ForgeCore.install
Formats == {"node", "python"}

EmptyManifest ==
  [dependencies |-> <<>>, devDependencies |-> <<>>,
   peerDependencies |-> <<>>, optionalDependencies |-> <<>>]

\* parseManifest: the Node adapter reads the four lists of package.json,
\* the Python adapter only the dependencies of requirements.txt.
parseManifest(fmt, d) ==
  IF fmt = "node"
  THEN d[fmt]
  ELSE [EmptyManifest EXCEPT !.dependencies = d[fmt].dependencies]

\* ForgeCore.install lines 234-259: the manifest that is resolved
TargetManifestMut(m, o) ==
  IF Len(o.packages) > 0
  THEN [m EXCEPT !.dependencies =
          [i \in 1..Len(o.packages) |-> Dep(o.packages[i], Wildcard)] \o @]
  ELSE m
TargetManifest(m, o) ==
  IF Len(o.packages) > 0
  THEN [EmptyManifest EXCEPT !.dependencies =
          [i \in 1..Len(o.packages) |-> Dep(o.packages[i], Wildcard)]]
  ELSE m

\* Array.from(dependencyGraph.nodes.values()).map(node => node.package)
Packages(g) == [i \in 1..Len(g) |-> g[i].node.package]

\* The cache path of a package: <cache>/<format>/<safeName>-<version><ext>.
\* The names of the model hold none of the characters safeName replaces.
cachePath(fmt, pkg) ==
  [format |-> fmt, name |-> pkg.name, version |-> pkg.version,
   ext |-> IF fmt = "node" THEN ".tgz"
           ELSE IF pkg.downloadUrl = ".whl" THEN ".whl" ELSE ".tar.gz"]

CachePaths ==
  [format : Formats, name : Names, version : Versions, ext : {".tgz", ".whl", ".tar.gz"}]

\* if (await fs.pathExists(cachePath)) return cachePath
CacheHitMut(c, path) == FALSE
CacheHit(c, path) == c[path] # "absent"

\* Promise.all(downloadPromises) is fulfilled when every task is
PromiseAllFulfilledMut(t) == \A i \in 1..Len(t) : t[i] \in {"done", "failed"}
PromiseAllFulfilled(t) == \A i \in 1..Len(t) : t[i] = "done"

\* Promise.all(downloadPromises) rejects as soon as one task has rejected
PromiseAllRejected(t) == \E i \in 1..Len(t) : t[i] = "failed"

\* if (context.dryRun)
IsDryRunMut(o) == FALSE
IsDryRun(o) == o.dryRun

NoResult == [returned |-> FALSE, installed |-> <<>>, removed |-> <<>>, errors |-> <<>>]

InitInst ==
  [idx |-> 1, installed |-> <<>>, errors |-> <<>>,
   copied |-> <<>>, okNow |-> {}, prevOK |-> {}]

\* The locals of an invocation that begins (nothing of the previous
\* invocation runs any more) and the history of what it has done so far.
BeginInvocation ==
  /\ graph' = <<>>
  /\ queried' = <<>>
  /\ visited' = {}
  /\ resolving' = {}
  /\ rerr' = ""
  /\ cycleHit' = FALSE
  /\ failDepth' = -1
  /\ failName' = ""
  /\ batch' = <<>>
  /\ task' = <<>>
  /\ paths' = <<>>
  /\ inst' = InitInst
  /\ hist' = [hist EXCEPT !.runs = @ + 1, !.installInvoked = FALSE,
                          !.lockInvoked = FALSE, !.lockFailed = FALSE,
                          !.requested = {},
                          !.cacheAtStart = cache, !.snapTarget = target,
                          !.snapLock = lock, !.snapVenv = venv]

\* ForgeCore.install lines 208-263: plugin selection (the adapter named by
\* the format, or detected), parseManifest, target manifest, and the entry
\* of resolveDependencies.  When no adapter is selected, install throws.
\* core.update: the options of the update call that made this call of
\* install (<<u>>), or <<>> when install was called directly.
install(o, caller) ==
  /\ pc \in {"idle", "done", "failed", "killed"}
  /\ hist.runs < MaxRuns
  /\ BeginInvocation
  /\ opts' = o
  /\ result' = NoResult
  /\ LET s == SelectPlugin(o.format, config, cwd)
     IN IF s.error = ""
        THEN /\ core' = [CoreOf("install", o.format, s,
                                <<"parseManifest", "resolveDependencies">>)
                           EXCEPT !.update = caller]
             /\ plugin' = s.plugin
             /\ manifest' = TargetManifest(parseManifest(s.plugin, disk), o)
             /\ stack' = <<IF s.plugin = "python" THEN PythonRootFrame(manifest')
                            ELSE RootFrame(manifest')>>
             /\ rstate' = "running"
             /\ pc' = "resolve"
        ELSE /\ core' = [CoreOf("install", o.format, s, <<>>) EXCEPT !.update = caller]
             /\ manifest' = EmptyManifest
             /\ stack' = <<>>
             /\ rstate' = "idle"
             /\ pc' = "failed"
             /\ UNCHANGED plugin
  /\ UNCHANGED <<sel, found, config, cwd, plugins, registry, disk, fsVars>>

\* a caller of ForgeCore invokes install
StartInstall(o) == install(o, <<>>)

\* ForgeCore.update: the options object it hands to install (verbose only
\* changes what is logged and is not part of the model's options)
updateArgsMut(options) ==
  [format |-> "", packages |-> options.packages, dryRun |-> options.dryRun]
updateArgs(options) ==
  [format |-> options.format, packages |-> options.packages, dryRun |-> options.dryRun]

\* ForgeCore.update: return this.install({...})
update(options) == install(updateArgs(options), <<options>>)

\* resolveDependencies rejected: install rethrows (lines 291-293)
ResolveFailed ==
  /\ pc = "resolve"
  /\ rstate = "threw"
  /\ pc' = "failed"
  /\ UNCHANGED <<sel, found, pmVars, plugin, registry, manifest, resolveVars, opts, disk, fsVars,
                 batch, task, paths, inst, result, hist>>

\* downloadPackages up to the first await of each task: one task per package
BeginDownload ==
  /\ pc = "resolve"
  /\ rstate = "returned"
  /\ batch' = Packages(graph)
  /\ task' = [i \in 1..Len(graph) |-> "check"]
  /\ hist' = [hist EXCEPT !.cacheAtStart = cache]
  /\ pc' = "fetch"
  /\ UNCHANGED <<sel, found, pmVars, plugin, registry, manifest, resolveVars, opts, disk, fsVars,
                 paths, inst, result>>

\* The tasks run while downloadPackages is awaited, and go on running after
\* Promise.all rejected (nothing cancels them) until the process ends.
TasksAlive == pc \in {"fetch", "failed"}

\* lines 181-184: the cache check; on a miss the HTTP request is issued
FetchCheck(i) ==
  /\ TasksAlive
  /\ task[i] = "check"
  /\ IF CacheHit(cache, cachePath(plugin, batch[i]))
     THEN /\ task' = [task EXCEPT ![i] = "done"]
          /\ UNCHANGED hist
     ELSE /\ task' = [task EXCEPT ![i] = "request"]
          /\ hist' = [hist EXCEPT !.requested = @ \cup {i}]
  /\ UNCHANGED <<sel, found, pmVars, plugin, registry, manifest, resolveVars, pc, opts, disk, fsVars,
                 batch, paths, inst, result>>

\* lines 193-204: the response arrives; fs.createWriteStream(cachePath)
\* creates (or truncates) the file at the final path and the body is piped
FetchResponse(i) ==
  /\ TasksAlive
  /\ task[i] = "request"
  /\ cache' = [cache EXCEPT ![cachePath(plugin, batch[i])] = "partial"]
  /\ task' = [task EXCEPT ![i] = "writing"]
  /\ UNCHANGED <<sel, found, pmVars, plugin, registry, manifest, resolveVars, pc, opts, disk, target,
                 lock, venv, batch, paths, inst, result, hist>>

\* the HTTP request fails: the task rejects (lines 217-220)
FetchRequestFail(i) ==
  /\ TasksAlive
  /\ task[i] = "request"
  /\ task' = [task EXCEPT ![i] = "failed"]
  /\ UNCHANGED <<sel, found, pmVars, plugin, registry, manifest, resolveVars, pc, opts, disk, fsVars,
                 batch, paths, inst, result, hist>>

\* writer.on('finish'): the whole body is in the file
FetchFinish(i) ==
  /\ TasksAlive
  /\ task[i] = "writing"
  /\ cache' = [cache EXCEPT ![cachePath(plugin, batch[i])] = "complete"]
  /\ task' = [task EXCEPT ![i] = "done"]
  /\ UNCHANGED <<sel, found, pmVars, plugin, registry, manifest, resolveVars, pc, opts, disk, target,
                 lock, venv, batch, paths, inst, result, hist>>

\* writer.on('error'): the task rejects, what was written stays in the file
FetchWriteError(i) ==
  /\ TasksAlive
  /\ task[i] = "writing"
  /\ task' = [task EXCEPT ![i] = "failed"]
  /\ UNCHANGED <<sel, found, pmVars, plugin, registry, manifest, resolveVars, pc, opts, disk, fsVars,
                 batch, paths, inst, result, hist>>

\* await Promise.all(downloadPromises) returns the paths (line 223, 268)
DownloadsResolve ==
  /\ pc = "fetch"
  /\ PromiseAllFulfilled(task)
  /\ paths' = [i \in 1..Len(batch) |-> cachePath(plugin, batch[i])]
  /\ pc' = "fetched"
  /\ UNCHANGED <<sel, found, pmVars, plugin, registry, manifest, resolveVars, opts, disk, fsVars,
                 batch, task, inst, result, hist>>

\* await Promise.all(downloadPromises) throws: install rethrows
DownloadsReject ==
  /\ pc = "fetch"
  /\ PromiseAllRejected(task)
  /\ pc' = "failed"
  /\ UNCHANGED <<sel, found, pmVars, plugin, registry, manifest, resolveVars, opts, disk, fsVars,
                 batch, task, paths, inst, result, hist>>

\* lines 271-283: the dry-run return
DryRunReturn ==
  /\ pc = "fetched"
  /\ IsDryRun(opts)
  /\ result' = [returned |-> TRUE, installed |-> batch, removed |-> <<>>,
                errors |-> <<>>]
  /\ pc' = "done"
  /\ UNCHANGED <<sel, found, pmVars, plugin, registry, manifest, resolveVars, opts, disk, fsVars,
                 batch, task, paths, inst, hist>>

\* line 285: installPackages is called.  The Node adapter ensures
\* node_modules; the Python adapter ensures the virtual environment
\* (getSitePackagesDir, outside every try): creating it can fail, and then
\* installPackages throws.
InstallBegin ==
  /\ pc = "fetched"
  /\ ~IsDryRun(opts)
  /\ hist' = [hist EXCEPT !.installInvoked = TRUE, !.lastOK[plugin] = {}]
  /\ inst' = [InitInst EXCEPT !.prevOK = hist.lastOK[plugin]]
  /\ IF plugin = "node" \/ venv
     THEN pc' = "install" /\ UNCHANGED venv
     ELSE \E created \in BOOLEAN :
            /\ venv' = created
            /\ pc' = IF created THEN "install" ELSE "failed"
  /\ UNCHANGED <<sel, found, pmVars, plugin, registry, manifest, resolveVars, opts, disk, cache,
                 target, lock, batch, task, paths, result>>

\* The installed-marker check: the Node adapter reads the package.json in
\* the package directory (node-plugin.ts 270-278), the Python adapter looks
\* for <name>-<version>.dist-info (python plugin 1210-1217).
AlreadyInstalled(tgt, pkgInfo) == <<pkgInfo.name, pkgInfo.version>> \in tgt.markers

\* The copy into the install location.  Node: the tarball's files, its
\* package.json included, replace those of the package directory.  Python
\* wheel: every directory of the wheel, its .dist-info included.  Python
\* source distribution: only the package directory.
CopyInto(fmt, tgt, packagePath) ==
  LET n == packagePath.name
      v == packagePath.version
  IN [content |-> [tgt.content EXCEPT ![n] = v],
      markers |->
        IF fmt = "node"
        THEN {m \in tgt.markers : m[1] # n} \cup {<<n, v>>}
        ELSE IF packagePath.ext = ".whl"
        THEN tgt.markers \cup {<<n, v>>}
        ELSE tgt.markers,
      partial |-> tgt.partial \ {n}]

\* The copy is a sequence of file operations (fs.copy(tempDir, packageDir),
\* node-plugin.ts 285-286; one fs.copy per directory of the wheel, python
\* plugin 1222-1236) in no guaranteed order: what the install location can
\* hold when the process stops between two of them.  Some of the package's
\* files are in place, and the file or directory the installed-marker check
\* reads is either already written or not yet.
PartialCopies(fmt, tgt, packagePath) ==
  LET n == packagePath.name
      whole == CopyInto(fmt, tgt, packagePath)
  IN {[content |-> whole.content, markers |-> m, partial |-> tgt.partial \cup {n}] :
        m \in {tgt.markers, whole.markers}}

\* The catch of the loop body: errors.push({package, error, fatal}); the Node
\* adapter marks the error fatal, the Python adapter does not.
PushErrorMut(errors, packagePath, fmt) == errors
PushError(errors, packagePath, fmt) ==
  Append(errors, [package |-> packagePath, fatal |-> (fmt = "node")])

\* One iteration of the loop of installPackages.
InstallOne ==
  /\ pc = "install"
  /\ inst.idx <= Len(paths)
  /\ LET packagePath == paths[inst.idx]
         \* tar.extract / extractZip succeed on a complete artifact and
         \* throw on a truncated one
         extracted == cache[packagePath] = "complete"
         \* the artifact's own package.json / METADATA
         pkgInfo == [name |-> packagePath.name, version |-> packagePath.version]
     IN IF ~extracted
        THEN /\ inst' = [inst EXCEPT !.idx = @ + 1,
                           !.errors = PushError(@, packagePath, plugin)]
             /\ UNCHANGED target
        ELSE IF AlreadyInstalled(target[plugin], pkgInfo)
        THEN /\ inst' = [inst EXCEPT !.idx = @ + 1,
                           !.okNow = @ \cup {packagePath}]
             /\ UNCHANGED target
        ELSE /\ target' = [target EXCEPT ![plugin] = CopyInto(plugin, @, packagePath)]
             /\ inst' = [inst EXCEPT !.idx = @ + 1,
                           !.installed = Append(@, pkgInfo),
                           !.copied = Append(@, packagePath),
                           !.okNow = @ \cup {packagePath}]
  /\ UNCHANGED <<sel, found, pmVars, plugin, registry, manifest, resolveVars, pc, opts, disk, cache,
                 lock, venv, batch, task, paths, result, hist>>

\* installPackages returns its InstallResult
InstallReturn ==
  /\ pc = "install"
  /\ inst.idx > Len(paths)
  /\ result' = [returned |-> FALSE, installed |-> inst.installed, removed |-> <<>>,
                errors |-> inst.errors]
  /\ hist' = [hist EXCEPT !.lastOK[plugin] = inst.okNow]
  /\ pc' = "lock"
  /\ UNCHANGED <<sel, found, pmVars, plugin, registry, manifest, resolveVars, opts, disk, fsVars,
                 batch, task, paths, inst>>

\* createLockFile: packages[key] = entry for every node of the graph; the
\* Node adapter uses the graph key, the Python adapter the package name.
RECURSIVE LockPackages(_, _, _)
LockPackages(fmt, g, i) ==
  IF i = 0
  THEN <<>>
  ELSE MapSet(LockPackages(fmt, g, i - 1),
              IF fmt = "node" THEN g[i].key ELSE g[i].node.package.name,
              [version |-> g[i].node.package.version,
               resolved |-> g[i].node.package.downloadUrl])

createLockFile(fmt, g) == [exists |-> TRUE, packages |-> LockPackages(fmt, g, Len(g))]

NoLock == [exists |-> FALSE, packages |-> <<>>]

\* lines 288-290: the lock file is written and the result returned
CreateLock ==
  /\ pc = "lock"
  /\ lock' = [lock EXCEPT ![plugin] = createLockFile(plugin, graph)]
  /\ hist' = [hist EXCEPT !.lockInvoked = TRUE]
  /\ result' = [result EXCEPT !.returned = TRUE]
  /\ pc' = "done"
  /\ UNCHANGED <<sel, found, pmVars, plugin, registry, manifest, resolveVars, opts, disk, cache,
                 target, venv, batch, task, paths, inst>>

\* line 288 rejects: fs.writeJson cannot write the lock file.  The await is
\* inside the try of install, whose catch rethrows (291-293): "return
\* result" is not reached and the caller gets the exception only.
CreateLockFail ==
  /\ pc = "lock"
  /\ hist' = [hist EXCEPT !.lockFailed = TRUE]
  /\ pc' = "failed"
  /\ UNCHANGED <<sel, found, pmVars, plugin, registry, manifest, resolveVars, opts, disk, fsVars,
                 batch, task, paths, inst, result>>

EmptyTarget == [content |-> [n \in Names |-> 0], markers |-> {}, partial |-> {}]

InitHist ==
  [runs |-> 0, installInvoked |-> FALSE, lockInvoked |-> FALSE, lockFailed |-> FALSE,
   requested |-> {},
   cacheAtStart |-> [p \in CachePaths |-> "absent"],
   snapTarget |-> [f \in Formats |-> EmptyTarget],
   snapLock |-> [f \in Formats |-> NoLock],
   snapVenv |-> FALSE,
   lastOK |-> [f \in Formats |-> {}]]

\* The process is interrupted: nothing of the invocation runs any more.
Kill ==
  /\ pc \in {"fetch", "install"}
  /\ pc' = "killed"
  /\ UNCHANGED <<sel, found, pmVars, plugin, registry, manifest, resolveVars, opts, disk, fsVars,
                 batch, task, paths, inst, result, hist>>

\* The process is interrupted while installPackages copies a package into
\* the install location (the copy of InstallOne, stopped half way).
KillDuringCopy ==
  /\ pc = "install"
  /\ inst.idx <= Len(paths)
  /\ LET packagePath == paths[inst.idx]
         pkgInfo == [name |-> packagePath.name, version |-> packagePath.version]
     IN /\ cache[packagePath] = "complete"
        /\ ~AlreadyInstalled(target[plugin], pkgInfo)
        /\ \E t \in PartialCopies(plugin, target[plugin], packagePath) :
             target' = [target EXCEPT ![plugin] = t]
  /\ pc' = "killed"
  /\ UNCHANGED <<sel, found, pmVars, plugin, registry, manifest, resolveVars, opts, disk, cache,
                 lock, venv, batch, task, paths, inst, result, hist>>

\* ------------------------------------------- the other ForgeCore operations
\* removePackages: the package directories that exist are removed from the
\* install location.  The Node adapter skips a package that is not there;
\* the Python adapter reports it as a non-fatal error, and removes the
\* package directory only (a .dist-info directory stays).
removePackages(fmt, tgt, packageNames) ==
  LET present(i) == tgt.content[packageNames[i]] # 0
      names == [i \in 1..Len(packageNames) |-> packageNames[i]]
      idx == 1..Len(packageNames)
      \* the indices of the names that are handled as removed: the first
      \* occurrence of each name whose directory exists
      hit(i) == present(i) /\ \A j \in 1..(i - 1) : packageNames[j] # packageNames[i]
      keep(sq, ok(_)) == LET RECURSIVE F(_)
                             F(i) == IF i = 0 THEN <<>>
                                     ELSE IF ok(i) THEN Append(F(i - 1), sq[i])
                                     ELSE F(i - 1)
                         IN F(Len(sq))
      miss(i) == ~hit(i)
  IN [removed |-> keep(names, hit),
      errors |-> IF fmt = "node" THEN <<>>
                 ELSE [i \in 1..Len(keep(names, miss)) |->
                         [package |-> keep(names, miss)[i], fatal |-> FALSE]],
      target |-> [content |-> [n \in Names |->
                                 IF \E i \in idx : packageNames[i] = n
                                 THEN 0 ELSE tgt.content[n]],
                  markers |-> IF fmt = "node"
                              THEN {m \in tgt.markers :
                                      \A i \in idx : packageNames[i] # m[1]}
                              ELSE tgt.markers,
                  partial |-> {n \in tgt.partial :
                                 \A i \in idx : packageNames[i] # n}]]

\* ForgeCore.remove: plugin selection, the dry-run return, removePackages.
\* The Python adapter's removePackages first ensures the virtual
\* environment (getSitePackagesDir), which can fail.
Remove(o) ==
  /\ pc \in {"idle", "done", "failed", "killed"}
  /\ hist.runs < MaxRuns
  /\ BeginInvocation
  /\ opts' = o
  /\ manifest' = EmptyManifest
  /\ stack' = <<>>
  /\ rstate' = "idle"
  /\ LET s == SelectPlugin(o.format, config, cwd)
         r == removePackages(s.plugin, target[s.plugin], o.packages)
     IN IF s.error # ""
        THEN /\ core' = CoreOf("remove", o.format, s, <<>>)
             /\ pc' = "failed"
             /\ result' = NoResult
             /\ UNCHANGED <<plugin, target, venv>>
        ELSE IF IsDryRun(o)
        THEN /\ core' = CoreOf("remove", o.format, s, <<>>)
             /\ plugin' = s.plugin
             /\ pc' = "done"
             /\ result' = [returned |-> TRUE, installed |-> <<>>,
                           removed |-> o.packages, errors |-> <<>>]
             /\ UNCHANGED <<target, venv>>
        ELSE /\ core' = CoreOf("remove", o.format, s, <<"removePackages">>)
             /\ plugin' = s.plugin
             /\ \E created \in BOOLEAN :
                  /\ venv' = IF s.plugin = "python" THEN (venv \/ created) ELSE venv
                  /\ IF s.plugin = "python" /\ ~venv'
                     THEN /\ pc' = "failed"
                          /\ result' = NoResult
                          /\ UNCHANGED target
                     ELSE /\ pc' = "done"
                          /\ result' = [returned |-> TRUE, installed |-> <<>>,
                                        removed |-> r.removed, errors |-> r.errors]
                          /\ target' = [target EXCEPT ![s.plugin] = r.target]
  /\ UNCHANGED <<sel, found, config, cwd, plugins, registry, disk, cache, lock>>

\* ForgeCore.getPackageInfo: the adapter is always detected; its
\* getPackageInfo queries the registry and throws for an unknown package.
GetPackageInfo(packageName) ==
  /\ pc \in {"idle", "done", "failed", "killed"}
  /\ hist.runs < MaxRuns
  /\ BeginInvocation
  /\ opts' = [format |-> "", packages |-> <<packageName>>, dryRun |-> FALSE]
  /\ manifest' = EmptyManifest
  /\ stack' = <<>>
  /\ rstate' = "idle"
  /\ result' = NoResult
  /\ LET d == getPluginForDirectory(config, cwd)
         s == [plugin |-> d.plugin,
               error |-> IF d.threw THEN "threw"
                         ELSE IF d.plugin = NoPlugin THEN "noplugin" ELSE "",
               detected |-> TRUE, priority |-> d.priority,
               viaPriority |-> d.viaPriority, viaRemaining |-> d.viaRemaining]
     IN IF s.error # ""
        THEN /\ core' = CoreOf("getPackageInfo", "", s, <<>>)
             /\ pc' = "failed"
             /\ UNCHANGED plugin
        ELSE /\ core' = CoreOf("getPackageInfo", "", s, <<"getPackageInfo">>)
             /\ plugin' = s.plugin
             /\ pc' = IF registry[packageName].versions = {} THEN "failed" ELSE "done"
  /\ UNCHANGED <<sel, found, config, cwd, plugins, registry, disk, fsVars>>

\* ForgeCore.setPluginPriority: setConfig('pluginPriority', priority) assigns
\* the list in this.config and hands the config to the plugin manager
\* before it is saved, so the list is in force whether or not saving works.
setPluginPriority(priority) ==
  /\ pc \in {"idle", "done", "failed", "killed"}
  /\ config' = [defined |-> TRUE, pluginPriority |-> priority]
  /\ core' = [NoCore EXCEPT !.kind = "setPluginPriority",
                            !.setCalled = TRUE, !.setP = priority]
  /\ UNCHANGED <<sel, found, cwd, plugins, plugin, registry, manifest, resolveVars, installVars>>

\* DefaultPluginManager.register: this.plugins.set(plugin.name, plugin); the
\* entries of formatPlugins follow from the registration order (see
\* getPluginByFormat).
register(registered, p) == Append(registered, p)

\* ForgeCore.registerPlugin, for an adapter that is not registered yet
registerPlugin(p) ==
  /\ pc \in {"idle", "done", "failed", "killed"}
  /\ p \notin {plugins[i] : i \in 1..Len(plugins)}
  /\ plugins' = register(plugins, p)
  /\ core' = [NoCore EXCEPT !.kind = "registerPlugin"]
  /\ UNCHANGED <<sel, found, config, cwd, plugin, registry, manifest, resolveVars,
                 installVars>>

\* --------------------------------------------------------- ForgeCore.search
\* What a registry's search endpoint answers: "fails" (the request fails),
\* or the scores of the packages it lists (0: the entry carries no score).
NoSearch == [called |-> FALSE, format |-> "", responses |-> <<>>, threw |-> FALSE,
             results |-> <<>>]

\* NodePlugin.searchPackages / PythonPlugin.searchPackages: both catch a
\* failing request and return []; the Node adapter takes score.final, the
\* Python adapter (r.score as number) || 1.0.
searchPackages(p, response) ==
  IF response = "fails"
  THEN <<>>
  ELSE [i \in 1..Len(response) |->
          [from |-> p, id |-> i,
           score |-> IF p = "python" /\ response[i] = 0 THEN 1 ELSE response[i]]]

\* this.pluginManager.listPlugins(): the adapters in registration order
listPlugins == plugins

\* results.sort((a, b) => b.score - a.score): descending by score, entries of
\* equal score keep their order
sortByScoreMut(results) == results
sortByScore(results) ==
  LET rank(i) == Cardinality({j \in 1..Len(results) :
                                \/ results[j].score > results[i].score
                                \/ results[j].score = results[i].score /\ j <= i})
  IN [k \in 1..Len(results) |-> results[CHOOSE i \in 1..Len(results) : rank(i) = k]]

\* the loop over the adapters (lines 376-383): the results of the first i.
\* Neither adapter's searchPackages lets an error out of its own catch, so
\* the catch of the loop has nothing to handle.
RECURSIVE SearchAcross(_, _)
SearchAcross(responses, i) ==
  IF i = 0
  THEN <<>>
  ELSE SearchAcross(responses, i - 1)
         \o searchPackages(listPlugins[i], responses[listPlugins[i]])

\* ForgeCore.search(query, format)
search(format, responses) ==
  IF format # ""
  THEN IF getPluginByFormat(format) = NoPlugin
       THEN [called |-> TRUE, format |-> format, responses |-> responses,
             threw |-> TRUE, results |-> <<>>]
       ELSE [called |-> TRUE, format |-> format, responses |-> responses,
             threw |-> FALSE,
             results |-> sortByScore(searchPackages(getPluginByFormat(format),
                                                    responses[getPluginByFormat(format)]))]
  ELSE [called |-> TRUE, format |-> format, responses |-> responses,
        threw |-> FALSE,
        results |-> sortByScore(SearchAcross(responses, Len(listPlugins)))]

SearchResponses == {"fails", <<>>, <<1>>, <<0, 2>>}

\* a caller invokes ForgeCore.search
Search(format) ==
  /\ pc \in {"idle", "done", "failed", "killed"}
  /\ hist.runs < MaxRuns
  /\ \E responses \in [Formats -> SearchResponses] :
       found' = search(format, responses)
  /\ hist' = [hist EXCEPT !.runs = @ + 1]
  /\ core' = [NoCore EXCEPT !.kind = "search", !.format = format,
                            !.setCalled = core.setCalled, !.setP = core.setP]
  /\ UNCHANGED <<sel, config, cwd, plugins, plugin, registry, manifest, resolveVars, pc, opts, disk,
                 fsVars, batch, task, paths, inst, result>>

\* ------------------------------------------------------ the command line
\* The action of the install and of the remove command: what it prints and
\* the status the process ends with.  The catch around the ForgeCore call is
\* the only place that calls process.exit(1); when the call returned, the
\* errors of the result are printed and the action returns, so the process
\* ends with status 0.
commandAction(threw, res) ==
  IF threw
  THEN [printed |-> "failed", exit |-> 1]
  ELSE IF Len(res.errors) > 0
  THEN [printed |-> "completed with errors", exit |-> 0]
  ELSE [printed |-> "completed", exit |-> 0]

\* the outcome of the command whose ForgeCore call has ended
CommandOutcome == commandAction(pc = "failed", result)

\* ------------------------------------------------------- version selection
\* -1: the adapter's selection was not computed yet
NoSel == [versions |-> {}, range |-> Wildcard, node |-> -1, python |-> -1]

\* NodePlugin.getPackageVersionInfo lines 559-560: the version it selects
\* from Object.keys(pkg.versions)
NodeSelect ==
  /\ sel.node = -1
  /\ sel' = [sel EXCEPT !.node = maxSatisfying(sel.versions, sel.range)]
  /\ UNCHANGED <<found, pmVars, plugin, registry, manifest, resolveVars, installVars>>

\* PythonPlugin.fetchPackageInfo lines 999-1000: the version it selects from
\* Object.keys(data.releases)
PythonSelect ==
  /\ sel.python = -1
  /\ sel' = [sel EXCEPT !.python = findBestVersion(sel.versions, sel.range)]
  /\ UNCHANGED <<found, pmVars, plugin, registry, manifest, resolveVars, installVars>>

\* ------------------------------------------------- inputs of the resolution
\* What a package may declare as its dependencies (the same for each of its
\* versions): chains, cycles, a self-dependency, unknown or unsatisfiable edges.
DepChoices(n) ==
  CASE n = "A" -> {<<>>, <<Plain("B", Wildcard)>>, <<Plain("B", Ge(MaxVer))>>,
                   <<Plain("B", Wildcard), Plain("C", Eq(1))>>, <<Plain("A", Wildcard)>>}
    [] n = "B" -> {<<>>, <<Plain("A", Wildcard)>>, <<Plain("A", Eq(1))>>, <<Plain("C", Wildcard)>>,
                   <<Plain("C", Ge(MaxVer)), Plain("A", Wildcard)>>}
    [] OTHER -> {<<>>}

VersionSets == {{}, {1}, Versions}

RegEntry(vs, deps, ptype) ==
  [versions |-> vs, dependencies |-> [v \in Versions |-> deps], packagetype |-> ptype]

NodeRegistries ==
  {[n \in Names |-> RegEntry(vs[n], ds[n], "sdist")] :
     vs \in [Names -> VersionSets],
     ds \in {f \in [Names -> UNION {DepChoices(n) : n \in Names}] :
               \A n \in Names : f[n] \in DepChoices(n)}}

Manifest(deps, dev) ==
  [dependencies |-> deps, devDependencies |-> dev,
   peerDependencies |-> <<>>, optionalDependencies |-> <<>>]

ResolveManifests ==
  {Manifest(<<Dep("A", Wildcard)>>, <<>>),
   Manifest(<<Dep("A", Eq(1)), Dep("B", Wildcard)>>, <<>>),
   Manifest(<<Dep("B", Wildcard)>>, <<Dep("A", Wildcard)>>),
   Manifest(<<Dep("A", Wildcard)>>, <<Dep("A", Eq(1))>>),
   Manifest(<<Dep("C", Wildcard), Dep("A", Ge(MaxVer))>>, <<>>)}

\* The state on entry of NodePlugin.resolveDependencies (lines 134-141).
InitResolve ==
  /\ plugins = Plugins
  /\ plugin = "node"
  /\ registry \in NodeRegistries
  /\ manifest \in ResolveManifests
  /\ graph = <<>>
  /\ queried = <<>>
  /\ visited = {}
  /\ resolving = {}
  /\ stack = <<RootFrame(manifest)>>
  /\ rstate = "running"
  /\ rerr = ""
  /\ cycleHit = FALSE
  /\ failDepth = -1
  /\ failName = ""
  /\ pc = "resolve"
  /\ opts = [format |-> "node", packages |-> <<>>, dryRun |-> FALSE]
  /\ disk = [f \in Formats |-> EmptyManifest]
  /\ cache = [p \in CachePaths |-> "absent"]
  /\ target = [f \in Formats |-> EmptyTarget]
  /\ lock = [f \in Formats |-> NoLock]
  /\ venv = FALSE
  /\ batch = <<>>
  /\ task = <<>>
  /\ paths = <<>>
  /\ inst = InitInst
  /\ result = NoResult
  /\ hist = InitHist
  /\ sel = NoSel
  /\ found = NoSearch
  /\ config = DefaultConfig
  /\ cwd = [p \in {"node", "python"} |-> "true"]
  /\ core = NoCore

NextResolve == NodeResolveDependency \/ ResolveReturn \/ ResolveFinish

SpecResolve == InitResolve /\ [][NextResolve]_vars

\* The resolution is one sequential chain of awaits: each step is taken.
SpecResolveFair == SpecResolve /\ WF_vars(NextResolve)

\* ---------------------------------------------------- inputs of the install
InstallRegistries ==
  {[n \in Names |->
      CASE n = "A" -> RegEntry(Versions,
                               <<Plain("B", Wildcard), Req("C", Wildcard, "extra", FALSE)>>,
                               "bdist_wheel")
        [] n = "B" -> RegEntry({1}, <<>>, "sdist")
        [] OTHER -> RegEntry({1}, <<>>, "bdist_wheel")],
   [n \in Names |->
      CASE n = "A" -> RegEntry(Versions, <<Plain("B", Ge(1))>>, "bdist_wheel")
        [] n = "B" -> RegEntry({1}, <<Plain("A", Eq(1))>>, "sdist")
        [] OTHER -> RegEntry({}, <<>>, "sdist")]}

DiskManifests ==
  [node |-> Manifest(<<Dep("A", Wildcard)>>, <<Dep("C", Wildcard)>>),
   python |-> Manifest(<<Dep("B", Wildcard), Dep("C", Eq(1))>>, <<>>)]

InstallOptions ==
  [format : Formats, packages : {<<>>, <<"B">>}, dryRun : BOOLEAN]

Init ==
  /\ plugins = Plugins
  /\ plugin = "node"
  /\ registry \in InstallRegistries
  /\ manifest = EmptyManifest
  /\ graph = <<>>
  /\ queried = <<>>
  /\ visited = {}
  /\ resolving = {}
  /\ stack = <<>>
  /\ rstate = "idle"
  /\ rerr = ""
  /\ cycleHit = FALSE
  /\ failDepth = -1
  /\ failName = ""
  /\ pc = "idle"
  /\ opts = [format |-> "node", packages |-> <<>>, dryRun |-> FALSE]
  /\ disk = DiskManifests
  /\ cache = [p \in CachePaths |-> "absent"]
  /\ target = [f \in Formats |-> EmptyTarget]
  /\ lock = [f \in Formats |-> NoLock]
  /\ venv = FALSE
  /\ batch = <<>>
  /\ task = <<>>
  /\ paths = <<>>
  /\ inst = InitInst
  /\ result = NoResult
  /\ hist = InitHist
  /\ sel = NoSel
  /\ found = NoSearch
  /\ config = DefaultConfig
  /\ cwd = [p \in {"node", "python"} |-> "true"]
  /\ core = NoCore

Next ==
  \/ \E o \in InstallOptions : StartInstall(o)
  \/ NodeResolveDependency
  \/ PythonResolveDirectDependency
  \/ ResolveReturn
  \/ ResolveFinish
  \/ ResolveFailed
  \/ BeginDownload
  \/ \E i \in 1..Len(task) : FetchCheck(i)
  \/ \E i \in 1..Len(task) : FetchResponse(i)
  \/ \E i \in 1..Len(task) : FetchRequestFail(i)
  \/ \E i \in 1..Len(task) : FetchFinish(i)
  \/ \E i \in 1..Len(task) : FetchWriteError(i)
  \/ DownloadsResolve
  \/ DownloadsReject
  \/ DryRunReturn
  \/ InstallBegin
  \/ InstallOne
  \/ InstallReturn
  \/ CreateLock
  \/ CreateLockFail
  \/ Kill
  \/ KillDuringCopy

Spec == Init /\ [][Next]_vars

\* ------------------------------------------------ claims on the resolution
ResolveEnded == rstate \in {"returned", "threw"}

\* The number of graph nodes whose package is named n.
CountNamed(n) ==
  Cardinality({i \in 1..Len(graph) : graph[i].node.package.name = n})

\* The registry holds the cycle A -> B -> A and publishes every version of
\* every package, so that each edge of the manifests can be resolved.
CycleAB ==
  /\ \A n \in Names : registry[n].versions = Versions
  /\ registry["A"].dependencies[1] = <<Plain("B", Wildcard)>>
  /\ registry["B"].dependencies[1] \in {<<Plain("A", Wildcard)>>, <<Plain("A", Eq(1))>>}

\* C8: under the Node policy resolveDependencies terminates for every
\* registry, cyclic ones included, and for the cycle A -> B -> A it returns
\* a graph in which A and B each appear exactly once.
C8_CyclesTerminate ==
  /\ <>ResolveEnded
  /\ CycleAB => <>(rstate = "returned" /\ CountNamed("A") = 1 /\ CountNamed("B") = 1)

C8_Witness ==
  /\ CycleAB
  /\ rstate = "returned"
  /\ cycleHit
  /\ CountNamed("A") = 1
  /\ CountNamed("B") = 1

\* C9: a dependency cycle never makes the Node resolveDependencies fail:
\* no 'Circular dependency detected' error is thrown, and a key that is on
\* the active recursion path is never expanded a second time on that path.
C9_CycleNeverAborts ==
  /\ rerr # "circular"
  /\ \A i, j \in 1..Len(stack) : i # j => stack[i].key # stack[j].key
  /\ FrameKeys(stack) \subseteq visited

C9_Witness ==
  /\ cycleHit
  /\ rstate = "returned"
  /\ Len(graph) >= 2

DeclaredByRoot(n) ==
  \E i \in 1..Len(allDependencies(manifest)) : allDependencies(manifest)[i].name = n

\* C10: when a transitive edge (recursion depth > 0) cannot be resolved,
\* resolveDependencies still returns a graph: it does not throw.
C10_TransitiveFailureNotFatal ==
  ~(rstate = "threw" /\ failDepth > 0 /\ ~DeclaredByRoot(failName))

\* --------------------------------------------------- claims on the install
TaskPath(i) == cachePath(plugin, batch[i])

Range(q) == {q[i] : i \in 1..Len(q)}

\* C1: installPackages is invoked only after every fetch task of the batch
\* has completed successfully; once a fetch task has failed, the invocation
\* never reaches installPackages or createLockFile, never completes, and
\* installs no package of the batch.
C1_FetchAllOrNothing ==
  /\ hist.installInvoked => \A i \in 1..Len(task) : task[i] = "done"
  /\ (\E i \in 1..Len(task) : task[i] = "failed") =>
       /\ ~hist.installInvoked
       /\ ~hist.lockInvoked
       /\ pc \in {"fetch", "failed", "killed"}
       /\ inst.copied = <<>>
       /\ target = hist.snapTarget
       /\ lock = hist.snapLock

C1_Witness ==
  /\ pc = "failed"
  /\ \E i, j \in 1..Len(task) :
       /\ task[i] = "failed"
       /\ task[j] = "done"
       /\ j \in hist.requested
       /\ cache[TaskPath(j)] = "complete"

\* C2: an install invoked with dryRun never invokes installPackages or
\* createLockFile, leaves the install target (and the virtual environment)
\* and the lock file as they were, and when it returns, its result lists
\* exactly the packages of the resolved graph as installed, with no errors.
C2_DryRunNoSideEffects ==
  (pc # "idle" /\ opts.dryRun) =>
    /\ ~hist.installInvoked
    /\ ~hist.lockInvoked
    /\ pc \notin {"install", "lock"}
    /\ target = hist.snapTarget
    /\ lock = hist.snapLock
    /\ venv = hist.snapVenv
    /\ pc = "done" =>
         /\ result.returned
         /\ result.installed = Packages(graph)
         /\ result.errors = <<>>

C2_Witness ==
  /\ pc = "done"
  /\ opts.dryRun
  /\ Len(result.installed) >= 2
  /\ \E p \in CachePaths : cache[p] = "complete" /\ hist.cacheAtStart[p] = "absent"

\* C3: every non-dry-run install that got past the fetch step (it called
\* installPackages) and has ended wrote the lock snapshot of the graph that
\* this invocation resolved.
C3_LockAlwaysWritten ==
  (pc \in {"done", "failed"} /\ hist.installInvoked) =>
    /\ hist.lockInvoked
    /\ lock[plugin] = createLockFile(plugin, graph)

\* The names reachable from the names S through the dependencies that any
\* version in the registry declares.
RECURSIVE Closure(_)
Closure(S) ==
  LET next == S \cup {d.name : d \in UNION {Range(registry[n].dependencies[v]) :
                                             n \in S, v \in Versions}}
  IN IF next = S THEN S ELSE Closure(next)

DeclaredOnDisk(fmt, y) ==
  \E d \in Range(disk[fmt].dependencies) \cup Range(disk[fmt].devDependencies)
           \cup Range(disk[fmt].optionalDependencies) : d.name = y

\* C4: when specific packages are requested, the manifest that is resolved
\* holds exactly those names with the wildcard range and nothing of the
\* on-disk manifest; a package the manifest declares, that was not requested
\* and is not in the closure of the requested ones, is not in the graph, not
\* in the fetch batch, not copied into the install target and not in the
\* lock this invocation writes.
C4_ScopeNarrowing ==
  (pc # "idle" /\ Len(opts.packages) > 0) =>
    /\ manifest.dependencies =
         [i \in 1..Len(opts.packages) |-> Dep(opts.packages[i], Wildcard)]
    /\ manifest.devDependencies = <<>>
    /\ manifest.peerDependencies = <<>>
    /\ manifest.optionalDependencies = <<>>
    /\ \A y \in Names :
         (DeclaredOnDisk(plugin, y) /\ y \notin Closure(Range(opts.packages))) =>
           /\ \A i \in 1..Len(graph) : graph[i].node.package.name # y
           /\ \A i \in 1..Len(batch) : batch[i].name # y
           /\ \A i \in 1..Len(inst.copied) : inst.copied[i].name # y
           /\ target[plugin].content[y] = hist.snapTarget[plugin].content[y]
           /\ hist.lockInvoked => ~MapHas(lock[plugin].packages, y)

C4_Witness ==
  /\ pc = "done"
  /\ ~opts.dryRun
  /\ Len(opts.packages) > 0
  /\ hist.lockInvoked
  /\ Len(inst.copied) >= 2
  /\ \E y \in Names : DeclaredOnDisk(plugin, y) /\ y \notin Closure(Range(opts.packages))

\* C5: an artifact that the previous installPackages run on the same install
\* target handled without error (prevOK) is not copied again by this run,
\* and this run reports it neither as installed nor as an error.
C5_ReinstallCopiesNothing ==
  \A a \in inst.prevOK :
    /\ a \notin Range(inst.copied)
    /\ \A i \in 1..Len(inst.installed) :
         inst.installed[i] # [name |-> a.name, version |-> a.version]
    /\ \A i \in 1..Len(inst.errors) : inst.errors[i].package # a

\* C6: for a package whose artifact file exists at its cache path when
\* downloadPackages starts, no network transfer is started, the file is not
\* rewritten, and the path returned for it is that cache path.
C6_CachedNotRefetched ==
  \A i \in 1..Len(task) :
    hist.cacheAtStart[TaskPath(i)] # "absent" =>
      /\ i \notin hist.requested
      /\ task[i] \in {"check", "done"}
      /\ cache[TaskPath(i)] = hist.cacheAtStart[TaskPath(i)]
      /\ Len(paths) >= i => paths[i] = TaskPath(i)

C6_Witness ==
  /\ pc = "fetched"
  /\ hist.requested = {}
  /\ Len(paths) >= 2
  /\ \A i \in 1..Len(task) : hist.cacheAtStart[TaskPath(i)] = "complete"

\* C7: at every moment a file exists at an artifact's final cache path only
\* if it is a complete artifact, and a fetch task never returns the path of
\* a partial artifact as a valid one.
C7_NoPartialArtifactVisible ==
  /\ \A p \in CachePaths : cache[p] # "partial"
  /\ \A i \in 1..Len(task) : task[i] = "done" => cache[TaskPath(i)] = "complete"

\* ------------------------------------------- claims on unresolvable edges
\* The registry knows no version of d.name that satisfies d.versionRange.
Unresolvable(d) ==
  ~\E v \in registry[d.name].versions : Satisfies(v, d.versionRange)

\* C11: an install whose resolved manifest declares a dependency that cannot
\* be resolved never completes with a returned result; this is stated for
\* the Node and for the Python adapter alike.
C11_DirectFailureFails ==
  (pc = "done" /\ result.returned) =>
    \A d \in Range(allDependencies(manifest)) : ~Unresolvable(d)

\* C12: when resolveDependencies has returned, the graph holds one node per
\* requested key name@constraint: for every package name, as many nodes of
\* that name as there are distinct constraints under which it was expanded.
C12_GraphKeyedByConstraint ==
  rstate = "returned" =>
    \A n \in Names : CountNamed(n) >= Cardinality({k \in visited : k[1] = n})

\* ------------------------------------------- version selection, its inputs
SelectRanges ==
  {Wildcard} \cup {Eq(v) : v \in Versions} \cup {Ge(v) : v \in Versions}
  \cup {r \in {GeLt(lo, hi) : lo \in Versions, hi \in 2..(MaxVer + 1)} : r.v < r.hi}

\* Nothing of an install has run.
Idle ==
  /\ plugins = Plugins
  /\ plugin = "node"
  /\ manifest = EmptyManifest
  /\ graph = <<>>
  /\ queried = <<>>
  /\ visited = {}
  /\ resolving = {}
  /\ stack = <<>>
  /\ rstate = "idle"
  /\ rerr = ""
  /\ cycleHit = FALSE
  /\ failDepth = -1
  /\ failName = ""
  /\ pc = "idle"
  /\ opts = [format |-> "node", packages |-> <<>>, dryRun |-> FALSE]
  /\ cache = [p \in CachePaths |-> "absent"]
  /\ target = [f \in Formats |-> EmptyTarget]
  /\ lock = [f \in Formats |-> NoLock]
  /\ venv = FALSE
  /\ batch = <<>>
  /\ task = <<>>
  /\ paths = <<>>
  /\ inst = InitInst
  /\ result = NoResult
  /\ hist = InitHist
  /\ core = NoCore

InitSelect ==
  /\ Idle
  /\ disk = DiskManifests
  /\ config = DefaultConfig
  /\ cwd = [p \in {"node", "python"} |-> "true"]
  /\ registry \in InstallRegistries
  /\ sel \in [versions : SUBSET Versions, range : SelectRanges,
              node : {-1}, python : {-1}]
  /\ found = NoSearch

NextSelect == NodeSelect \/ PythonSelect

SpecSelect == InitSelect /\ [][NextSelect]_vars

\* x is what the selection must give: the highest version of sel.versions
\* that satisfies sel.range, or 0 (no version) when none does.
HighestSatisfying(x) ==
  IF \E v \in sel.versions : Satisfies(v, sel.range)
  THEN /\ x \in sel.versions
       /\ Satisfies(x, sel.range)
       /\ \A v \in sel.versions : Satisfies(v, sel.range) => v <= x
  ELSE x = 0

\* C13: for every set of available versions and every supported constraint
\* (exact, greater-or-equal, a comparator list, wildcard) the Node selection
\* and the Python selection each return the highest available version that
\* satisfies the constraint, and no version when none satisfies it.
C13_SelectsHighestSatisfying ==
  /\ sel.node # -1 => HighestSatisfying(sel.node)
  /\ sel.python # -1 => HighestSatisfying(sel.python)

\* ------------------------------------- adapter selection, its inputs
\* What canHandle does for each registered adapter in the working directory.
Directories == [{"node", "python"} -> {"true", "false", "throws"}]

\* The configuration ForgeCore is constructed with: the default one, or one
\* that does not set pluginPriority.
InitialConfigs == {DefaultConfig, [defined |-> FALSE, pluginPriority |-> <<>>]}

PriorityChoices ==
  {<<>>, <<"python", "node">>, <<"maven", "pip">>, <<"nodejs", "node">>}

ForgeInstallOptions ==
  [format : {"", "node", "pip", "maven"}, packages : {<<"B">>, <<"C">>},
   dryRun : BOOLEAN]

RemoveOptions ==
  [format : {"", "python", "node", "maven"}, packages : {<<"C", "B">>},
   dryRun : BOOLEAN]

\* A registry that publishes A (which requires B) and B, and does not know C.
UpdateOptions == [format : {"", "pip"}, packages : {<<"B">>}, dryRun : BOOLEAN]

ForgeRegistry ==
  [n \in Names |->
     CASE n = "A" -> RegEntry(Versions, <<Plain("B", Wildcard)>>, "bdist_wheel")
       [] n = "B" -> RegEntry({1}, <<Req("A", Wildcard, "platform", FALSE),
                                     Req("A", Wildcard, "extra", FALSE),
                                     Req("A", Wildcard, "", TRUE)>>, "sdist")
       [] OTHER -> RegEntry({}, <<>>, "sdist")]

\* An install location that holds B 1.0.0: under node_modules with its
\* package.json, under site-packages as copied from a source distribution.
TargetWithB(fmt) ==
  [content |-> [n \in Names |-> IF n = "B" THEN 1 ELSE 0],
   markers |-> IF fmt = "node" THEN {<<"B", 1>>} ELSE {},
   partial |-> {}]

\* One ForgeCore operation runs on a directory in which earlier invocations
\* have installed B; pluginPriority may be set before it and after it.
InitForge ==
  /\ plugins = Plugins
  /\ plugin = "node"
  /\ manifest = EmptyManifest
  /\ graph = <<>>
  /\ queried = <<>>
  /\ visited = {}
  /\ resolving = {}
  /\ stack = <<>>
  /\ rstate = "idle"
  /\ rerr = ""
  /\ cycleHit = FALSE
  /\ failDepth = -1
  /\ failName = ""
  /\ pc = "idle"
  /\ opts = [format |-> "node", packages |-> <<>>, dryRun |-> FALSE]
  /\ cache = [p \in CachePaths |-> "absent"]
  /\ venv \in BOOLEAN
  /\ target = [f \in Formats |-> IF f = "node" \/ venv THEN TargetWithB(f)
                                 ELSE EmptyTarget]
  /\ lock = [f \in Formats |-> NoLock]
  /\ batch = <<>>
  /\ task = <<>>
  /\ paths = <<>>
  /\ inst = InitInst
  /\ result = NoResult
  /\ hist = [InitHist EXCEPT !.runs = MaxRuns - 1, !.snapTarget = target,
                              !.snapVenv = venv]
  /\ core = NoCore
  /\ registry = ForgeRegistry
  /\ sel = NoSel
  /\ found = NoSearch
  /\ config \in InitialConfigs
  /\ cwd \in Directories
  \* a manifest file exists where the adapter's canHandle answers true
  /\ disk = [f \in Formats |-> IF cwd[f] = "true" THEN DiskManifests[f]
                               ELSE EmptyManifest]

NextForge ==
  \/ \E o \in ForgeInstallOptions : StartInstall(o)
  \/ \E o \in UpdateOptions : update(o)
  \/ \E o \in RemoveOptions : Remove(o)
  \/ \E f \in {"", "pip", "maven"} : Search(f)
  \/ \E n \in {"B", "C"} : GetPackageInfo(n)
  \/ \E q \in PriorityChoices : setPluginPriority(q)
  \/ NodeResolveDependency
  \/ PythonResolveDirectDependency
  \/ ResolveReturn
  \/ ResolveFinish
  \/ ResolveFailed
  \/ BeginDownload
  \/ \E i \in 1..Len(task) : FetchCheck(i)
  \/ \E i \in 1..Len(task) : FetchResponse(i)
  \/ \E i \in 1..Len(task) : FetchRequestFail(i)
  \/ \E i \in 1..Len(task) : FetchFinish(i)
  \/ \E i \in 1..Len(task) : FetchWriteError(i)
  \/ DownloadsResolve
  \/ DownloadsReject
  \/ DryRunReturn
  \/ InstallBegin
  \/ InstallOne
  \/ InstallReturn
  \/ CreateLock
  \/ CreateLockFail
  \/ Kill

SpecForge == InitForge /\ [][NextForge]_vars

\* ------------------------------------------ claims on the adapter selection
Min(S) == CHOOSE x \in S : \A y \in S : x <= y

Registered(format) == getPluginByFormat(format) # NoPlugin

\* The positions of the priority list whose format has a registered adapter
\* that can handle the working directory.
PriorityHits(prio) ==
  {i \in 1..Len(prio) : Registered(prio[i]) /\ cwd[getPluginByFormat(prio[i])] = "true"}

\* The adapters of the registered formats among the first n of the list.
AdaptersUpTo(prio, n) ==
  LET regd == SelectSeq(SubSeq(prio, 1, n), Registered)
  IN [i \in 1..Len(regd) |-> getPluginByFormat(regd[i])]

\* The positions in registration order of the adapters none of whose
\* formats is in the priority list.
Uncovered(prio) ==
  {j \in 1..Len(Plugins) : \A i \in 1..Len(prio) : prio[i] \notin supportedFormats(Plugins[j])}

NothingTouched ==
  /\ pc = "failed"
  /\ core.calls = <<>>
  /\ rstate = "idle"
  /\ task = <<>>
  /\ ~hist.installInvoked
  /\ ~hist.lockInvoked
  /\ cache = hist.cacheAtStart
  /\ target = hist.snapTarget
  /\ lock = hist.snapLock
  /\ venv = hist.snapVenv

\* C14: a detection consults the adapters in the order of the priority list
\* and returns the adapter of the first listed format whose registered
\* adapter can handle the directory; after setPluginPriority(p) the list
\* that a detection uses is p.
C14_PriorityOrder ==
  core.detected =>
    /\ core.setCalled => core.priority = core.setP
    /\ PriorityHits(core.priority) # {} =>
         /\ core.plugin = getPluginByFormat(core.priority[Min(PriorityHits(core.priority))])
         /\ core.viaPriority = AdaptersUpTo(core.priority, Min(PriorityHits(core.priority)))
         /\ core.viaRemaining = <<>>

C14_Witness ==
  /\ core.kind = "install"
  /\ core.detected
  /\ core.setCalled
  /\ core.setP = <<"python", "node">>
  /\ cwd["node"] = "true"
  /\ cwd["python"] = "true"
  /\ core.plugin = "python"
  /\ pc = "done"

\* C15: when no adapter reached through the priority list can handle the
\* directory, the adapters not covered by the list are consulted in
\* registration order and the first that can handle it is returned (none if
\* there is none); no adapter consulted through the list is consulted again.
C15_FallbackRegistrationOrder ==
  (core.detected /\ PriorityHits(core.priority) = {}) =>
    LET R == Uncovered(core.priority)
        T == {j \in R : cwd[Plugins[j]] = "true"}
        last == IF T = {} THEN Len(Plugins) ELSE Min(T)
        scanned == SelectSeq([j \in 1..last |-> j], LAMBDA j : j \in R)
    IN /\ core.plugin = IF T = {} THEN NoPlugin ELSE Plugins[Min(T)]
       /\ core.viaRemaining = [k \in 1..Len(scanned) |-> Plugins[scanned[k]]]
       /\ Range(core.viaRemaining) \cap Range(core.viaPriority) = {}

C15_Witness ==
  /\ core.detected
  /\ core.priority = <<"maven", "pip">>
  /\ core.viaPriority = <<"python">>
  /\ core.viaRemaining = <<"node">>
  /\ core.plugin = "node"

\* C16: a canHandle that throws counts as the answer false: the detection
\* never fails with that error, and it returns what it would return if the
\* adapter had answered false.
C16_CanHandleThrowIsFalse ==
  core.detected =>
    /\ core.error # "threw"
    /\ core.plugin =
         getPluginForDirectory([defined |-> TRUE, pluginPriority |-> core.priority],
                               [p \in DOMAIN cwd |->
                                  IF cwd[p] = "throws" THEN "false" ELSE cwd[p]]).plugin

C16_Witness ==
  /\ core.detected
  /\ cwd["node"] = "throws"
  /\ core.viaPriority = <<"node", "python">>
  /\ core.plugin = "python"
  /\ core.error = ""

\* C17: install and remove with an explicit format call canHandle on no
\* adapter; a registered format selects its adapter whatever the directory
\* holds, an unregistered one fails with 'Unsupported format' before any
\* adapter operation.
C17_ExplicitFormatBypassesDetection ==
  (core.kind \in {"install", "remove"} /\ core.format # "") =>
    /\ ~core.detected
    /\ core.viaPriority = <<>>
    /\ core.viaRemaining = <<>>
    /\ core.error # "noplugin"
    /\ IF Registered(core.format)
       THEN /\ core.error = ""
            /\ core.plugin = getPluginByFormat(core.format)
            /\ plugin = core.plugin
       ELSE /\ core.error = "unsupported"
            /\ NothingTouched

C17_Witness ==
  /\ core.kind = "remove"
  /\ core.format = "python"
  /\ cwd["python"] = "false"
  /\ core.plugin = "python"
  /\ core.calls = <<"removePackages">>
  /\ result.removed = <<"B">>

Settled(i) == task[i] \in {"done", "failed"}

\* C19: downloadPackages reports a failure to install (which then fails)
\* only when every fetch task of the batch has settled.
C19_FailureAfterAllSettled ==
  (pc = "failed" /\ \E i \in 1..Len(task) : task[i] = "failed") =>
    \A i \in 1..Len(task) : Settled(i)

\* C20: two fetch tasks of one batch never write the same cache file at the
\* same time.
C20_OneWriterPerPath ==
  \A i, j \in 1..Len(task) :
    (i # j /\ TaskPath(i) = TaskPath(j)) => ~(task[i] = "writing" /\ task[j] = "writing")

\* ------------------------------------------ claims on the install location
\* C21: within one install invocation no artifact (name, version) is copied
\* into the install target more than once.
C21_CopiedAtMostOnce ==
  \A i, j \in 1..Len(inst.copied) :
    i # j => <<inst.copied[i].name, inst.copied[i].version>>
               # <<inst.copied[j].name, inst.copied[j].version>>

\* C22: the marker the installed check reads is present with the name and
\* the version of a package only if the package's contents were copied
\* completely, also after installPackages was interrupted during a copy.
C22_MarkerOnlyWhenComplete ==
  \A f \in Formats : \A n \in target[f].partial :
    ~AlreadyInstalled(target[f], [name |-> n, version |-> target[f].content[n]])

\* C23: when removePackages returned, every requested name is either in
\* removed or named by a non-fatal error of the result, with the Node and
\* with the Python adapter.
C23_RemoveAccountsForEveryName ==
  (core.kind = "remove" /\ pc = "done" /\ ~IsDryRun(opts)) =>
    \A n \in Range(opts.packages) :
      \/ n \in Range(result.removed)
      \/ \E e \in Range(result.errors) : e.package = n /\ ~e.fatal

\* ------------------------------------- claims on the Python resolution
\* C24: the graph the Python adapter's resolveDependencies builds holds a
\* node only for a dependency the manifest declares directly; no node is
\* added for a dependency of a resolved package.
C24_PythonResolutionShallow ==
  (plugin = "python" /\ rstate \in {"running", "returned"}) =>
    \A i \in 1..Len(graph) : DeclaredByRoot(graph[i].node.package.name)

\* An entry of requires_dist that carries an optional-extra marker, a
\* platform marker or a bracketed extras specification.
Filtered(reqDist) == reqDist.marker \in {"extra", "platform"} \/ reqDist.brackets

\* The names reachable from S along the entries of requires_dist that are
\* not filtered.
RECURSIVE UnfilteredClosure(_)
UnfilteredClosure(S) ==
  LET next == S \cup {d.name : d \in
                        {r \in UNION {Range(registry[n].dependencies[v]) :
                                        n \in S, v \in Versions} : ~Filtered(r)}}
  IN IF next = S THEN S ELSE UnfilteredClosure(next)

ManifestNames == {allDependencies(manifest)[i].name : i \in 1..Len(allDependencies(manifest))}

\* The filtered entries of the requires_dist the registry gives for n.
FilteredEdges(n) ==
  {r \in UNION {Range(registry[n].dependencies[v]) : v \in Versions} : Filtered(r)}

\* C25: an entry of requires_dist that the Python adapter's filter rejects
\* is dropped before graph insertion: it is not in the resolved package's
\* dependency list, and a package required through filtered entries only
\* has no graph node, is not fetched and is not in the lock that is written.
C25_FilteredEdgesDropped ==
  (plugin = "python" /\ core.kind = "install") =>
    /\ \A i \in 1..Len(graph) :
         \A r \in FilteredEdges(graph[i].node.package.name) :
           /\ Dep(r.name, r.versionRange) \notin Range(graph[i].node.package.dependencies)
           /\ DepKey(r) \notin Range(graph[i].node.dependencies)
    /\ \A y \in Names \ UnfilteredClosure(ManifestNames) :
         /\ \A i \in 1..Len(graph) : graph[i].node.package.name # y
         /\ \A i \in 1..Len(batch) : batch[i].name # y
         /\ \A i \in 1..Len(task) : i \in hist.requested => batch[i].name # y
         /\ hist.lockInvoked =>
              \A i \in 1..Len(lock[plugin].packages) : lock[plugin].packages[i].key # y

\* a Python install completed although the requested package has filtered
\* entries of all three kinds
C25_Witness ==
  /\ plugin = "python"
  /\ core.kind = "install"
  /\ pc = "done"
  /\ ~IsDryRun(opts)
  /\ hist.lockInvoked
  /\ \E i \in 1..Len(graph) :
       /\ \E r \in FilteredEdges(graph[i].node.package.name) : r.marker = "extra"
       /\ \E r \in FilteredEdges(graph[i].node.package.name) : r.marker = "platform"
       /\ \E r \in FilteredEdges(graph[i].node.package.name) : r.brackets
  /\ \A i \in 1..Len(lock[plugin].packages) : lock[plugin].packages[i].key # "A"

\* ------------------------------------------- claims on the ForgeCore methods
\* C26: update(options) is the step install takes when it is called with the
\* same packages, dryRun and format: the same adapter is selected and called,
\* with the same effect on every part of the state; what follows is the
\* install pipeline, there is no separate update state.
C26_UpdateIsInstall ==
  [][\A u \in UpdateOptions :
       update(u) => install([format |-> u.format, packages |-> u.packages,
                             dryRun |-> u.dryRun], <<u>>)]_vars

\* an update with a format ran the install pipeline to its end
C26_Witness ==
  /\ core.update # <<>>
  /\ core.update[1].format # ""
  /\ core.kind = "install"
  /\ pc = "done"
  /\ hist.lockInvoked
  /\ lock[plugin].exists

\* C27: when createLockFile fails after installPackages returned its
\* InstallResult, the caller of install still receives that result.
C27_ResultKeptOnLockFailure ==
  (core.kind = "install" /\ pc = "failed" /\ hist.lockFailed) => result.returned

\* C28: the install and the remove command end with a non-zero status when
\* the returned result holds errors or the operation threw, and with status
\* zero only when the operation finished with no errors.
C28_NonZeroExitOnErrors ==
  (core.kind \in {"install", "remove"} /\ pc \in {"done", "failed"}) =>
    (CommandOutcome.exit = 0 <=> (pc = "done" /\ result.errors = <<>>))

\* The number of returned results that come from adapter p with score x.
CountFound(p, x) ==
  Cardinality({i \in 1..Len(found.results) :
                 found.results[i].from = p /\ found.results[i].score = x})

\* The number of entries adapter p returned with score x: none when its
\* request failed.
CountAnswered(p, x) ==
  LET a == searchPackages(p, found.responses[p])
  IN Cardinality({i \in 1..Len(a) : a[i].score = x})

\* C29: a search with no format queries every registered adapter; an adapter
\* whose search fails contributes nothing and the search does not throw; the
\* results of the other adapters are all returned, by descending score.
C29_SearchAcrossAdapters ==
  (found.called /\ found.format = "") =>
    /\ ~found.threw
    /\ \A p \in Range(Plugins) : \A x \in 0..2 : CountFound(p, x) = CountAnswered(p, x)
    /\ \A i, j \in 1..Len(found.results) :
         i < j => found.results[i].score >= found.results[j].score

\* one adapter's search failed, the other one's results came back and had
\* to be reordered
C29_Witness ==
  /\ found.called
  /\ found.format = ""
  /\ found.responses["node"] = "fails"
  /\ found.responses["python"] = <<0, 2>>
  /\ Len(found.results) = 2
  /\ found.results[1].score = 2

\* C30: install with package names and no format, in a directory that holds
\* no manifest of any adapter, does not fail with 'No plugin found': the
\* Node adapter is used, and when the install completes its lock is written.
C30_NoManifestDefaultsToNode ==
  (/\ core.kind = "install"
   /\ core.format = ""
   /\ Len(opts.packages) > 0
   /\ \A p \in Range(Plugins) : cwd[p] = "false") =>
    /\ core.error # "noplugin"
    /\ core.plugin = "node"
    /\ (pc = "done" /\ ~IsDryRun(opts)) => lock["node"].exists

\* ------------------------------------- claims on the depth of the resolution
\* A registry with an acyclic chain of n resolution keys: version v of A
\* requires exactly version v + 1 of A, the last version requires nothing.
ChainRegistry(n) ==
  [x \in Names |->
     IF x = "A"
     THEN [versions |-> 1..n,
           dependencies |-> [v \in 1..n |-> IF v < n THEN <<Plain("A", Eq(v + 1))>>
                                            ELSE <<>>],
           packagetype |-> "sdist"]
     ELSE [versions |-> {}, dependencies |-> [v \in 1..n |-> <<>>],
           packagetype |-> "sdist"]]

\* chains that end below the ceiling, at it, and beyond it
ChainLens == {MaxDepth - 1, MaxDepth + 1, MaxDepth + 3}

\* The state on entry of NodePlugin.resolveDependencies for a manifest that
\* requires the first key of a chain.
InitChain ==
  /\ plugins = Plugins
  /\ plugin = "node"
  /\ registry \in {ChainRegistry(n) : n \in ChainLens}
  /\ manifest = Manifest(<<Dep("A", Eq(1))>>, <<>>)
  /\ graph = <<>>
  /\ queried = <<>>
  /\ visited = {}
  /\ resolving = {}
  /\ stack = <<RootFrame(manifest)>>
  /\ rstate = "running"
  /\ rerr = ""
  /\ cycleHit = FALSE
  /\ failDepth = -1
  /\ failName = ""
  /\ pc = "resolve"
  /\ opts = [format |-> "node", packages |-> <<>>, dryRun |-> FALSE]
  /\ disk = [f \in Formats |-> EmptyManifest]
  /\ cache = [p \in CachePaths |-> "absent"]
  /\ target = [f \in Formats |-> EmptyTarget]
  /\ lock = [f \in Formats |-> NoLock]
  /\ venv = FALSE
  /\ batch = <<>>
  /\ task = <<>>
  /\ paths = <<>>
  /\ inst = InitInst
  /\ result = NoResult
  /\ hist = InitHist
  /\ sel = NoSel
  /\ found = NoSearch
  /\ config = DefaultConfig
  /\ cwd = [p \in {"node", "python"} |-> "true"]
  /\ core = NoCore

SpecChain == InitChain /\ [][NextResolve]_vars /\ WF_vars(NextResolve)

\* C31: the Node resolution expands no dependency at a recursion depth
\* greater than 100 (no active call, no visited key, no graph node comes
\* from such a depth), and the resolution of an acyclic chain longer than
\* the ceiling ends.
C31_DepthCeiling ==
  /\ [](/\ \A i \in 1..Len(stack) : stack[i].depth <= MaxDepth
        /\ Cardinality(visited) <= MaxDepth + 1
        /\ \A i \in 1..Len(graph) : graph[i].node.package.version <= MaxDepth + 1)
  /\ <>ResolveEnded

\* a chain longer than the ceiling was resolved up to depth 100 and the
\* resolution returned
C31_Witness ==
  /\ rstate = "returned"
  /\ Cardinality(registry["A"].versions) > MaxDepth + 1
  /\ Cardinality(visited) = MaxDepth + 1
  /\ \E i \in 1..Len(graph) : graph[i].node.package.version = MaxDepth + 1

\* --------------------------------------- a Python install with a warm cache
\* Registries of the Python install: in the first, B requires A twice, once
\* pinned and once open, and C requires the namespace package A.test; in the
\* second, A is unknown and is required by B and by C.
PythonRegistries ==
  {[n \in Names |->
      CASE n = "A" -> RegEntry(Versions, <<>>, "bdist_wheel")
        [] n = "B" -> RegEntry({1}, <<Plain("A", Eq(1)), Plain("A", Wildcard)>>, "sdist")
        [] OTHER -> RegEntry({1}, <<Dotted("A", Ge(1))>>, "bdist_wheel")],
   [n \in Names |->
      CASE n = "A" -> RegEntry({}, <<>>, "sdist")
        [] n = "B" -> RegEntry({1}, <<Plain("A", Wildcard)>>, "sdist")
        [] OTHER -> RegEntry({1}, <<Plain("A", Wildcard), Plain("B", Wildcard)>>,
                             "bdist_wheel")]}

PythonManifests ==
  {Manifest(<<Dep("B", Wildcard)>>, <<>>),
   Manifest(<<Dep("C", Wildcard)>>, <<>>),
   Manifest(<<Dep("A", Eq(1)), Dep("C", Wildcard)>>, <<>>),
   Manifest(<<Dep("B", Wildcard), Dep("B", Ge(1))>>, <<>>)}

\* ForgeCore.install has selected the Python adapter and calls
\* resolveDependencies; every artifact is in the cache and the virtual
\* environment exists.
InitPython ==
  /\ plugins = Plugins
  /\ plugin = "python"
  /\ registry \in PythonRegistries
  /\ manifest \in PythonManifests
  /\ graph = <<>>
  /\ queried = <<>>
  /\ visited = {}
  /\ resolving = {}
  /\ stack = <<PythonRootFrame(manifest)>>
  /\ rstate = "running"
  /\ rerr = ""
  /\ cycleHit = FALSE
  /\ failDepth = -1
  /\ failName = ""
  /\ pc = "resolve"
  /\ opts = [format |-> "python", packages |-> <<>>, dryRun |-> FALSE]
  /\ disk = [f \in Formats |-> IF f = "python" THEN manifest ELSE EmptyManifest]
  /\ cache = [p \in CachePaths |-> "complete"]
  /\ target = [f \in Formats |-> EmptyTarget]
  /\ lock = [f \in Formats |-> NoLock]
  /\ venv = TRUE
  /\ batch = <<>>
  /\ task = <<>>
  /\ paths = <<>>
  /\ inst = InitInst
  /\ result = NoResult
  /\ hist = [InitHist EXCEPT !.runs = 1, !.cacheAtStart = cache]
  /\ sel = NoSel
  /\ found = NoSearch
  /\ config = DefaultConfig
  /\ cwd = [p \in {"node", "python"} |-> IF p = "python" THEN "true" ELSE "false"]
  /\ core = [NoCore EXCEPT !.kind = "install", !.format = "python", !.plugin = "python",
                           !.calls = <<"parseManifest", "resolveDependencies">>]

NextPython ==
  \/ PythonResolveDirectDependency
  \/ ResolveReturn
  \/ ResolveFinish
  \/ BeginDownload
  \/ \E i \in 1..Len(task) : FetchCheck(i)
  \/ DownloadsResolve
  \/ InstallBegin
  \/ InstallOne
  \/ InstallReturn
  \/ CreateLock
  \/ CreateLockFail

SpecPython == InitPython /\ [][NextPython]_vars

\* ------------------------------------------------ claims on the lock file
\* C32: the lock that createLockFile writes holds every (name, version) of
\* the resolved graph, and every entry's version is that of a graph node of
\* that name.
C32_LockRecordsResolvedVersions ==
  (pc = "done" /\ hist.lockInvoked) =>
    /\ \A i \in 1..Len(graph) :
         \E j \in 1..Len(lock[plugin].packages) :
           /\ lock[plugin].packages[j].key \in
                {graph[i].key, graph[i].node.package.name}
           /\ lock[plugin].packages[j].node.version = graph[i].node.package.version
    /\ \A j \in 1..Len(lock[plugin].packages) :
         \E i \in 1..Len(graph) :
           /\ lock[plugin].packages[j].key \in
                {graph[i].key, graph[i].node.package.name}
           /\ lock[plugin].packages[j].node.version = graph[i].node.package.version

\* ---------------------------------------------------- claims on the cache
\* C33: no step of an install deletes or rewrites an artifact file that a
\* fetch has created: a complete artifact stays as it is.
C33_ArtifactNeverRewritten ==
  [][\A p \in CachePaths : cache[p] = "complete" => cache'[p] = "complete"]_vars

\* -------------------------------- claims on the bookkeeping of the resolution
\* C34: while the Node resolveDependencies runs, the in-progress set holds
\* exactly the keys of the active resolveDependency calls, and it is empty
\* when resolveDependencies has returned or thrown.
C34_InProgressIsActivePath ==
  plugin = "node" =>
    /\ rstate = "running" => resolving = FrameKeys(stack)
    /\ ResolveEnded => resolving = {}

\* resolveDependencies failed inside a nested call, after keys had been put
\* into the in-progress set
C34_Witness ==
  /\ plugin = "node"
  /\ rstate = "threw"
  /\ failDepth > 0
  /\ visited # {}
  /\ resolving = {}

\* C35: within one resolveDependencies call the registry is queried at most
\* once for a resolution key, however many edges request the key.
C35_KeyExpandedOnce ==
  \A i, j \in 1..Len(queried) : i # j => queried[i] # queried[j]

\* What a requires_dist entry for a namespace package (a name with a dot)
\* turns into when it is not dropped: a dependency on the part of the name
\* before the dot, with the rest of the entry as its range.
FromDotted(dependency) == dependency.versionRange.op = "dot"

\* C36: a requires_dist entry whose package name holds a dot is dropped by
\* the Python adapter: it gives no dependency of the resolved package, no
\* registry query and no graph node under any name.
C36_DottedNameDropped ==
  plugin = "python" =>
    /\ \A i \in 1..Len(graph) :
         /\ graph[i].key[2].op # "dot"
         /\ \A d \in Range(graph[i].node.package.dependencies) : ~FromDotted(d)
    /\ \A i \in 1..Len(queried) : queried[i][2].op # "dot"

\* --------------------------------------------- claims on installPackages
\* The artifacts of the batch that installPackages has gone through.
Attempted == {i \in 1..Len(paths) : i < inst.idx}

\* C37: an artifact that fails to install is recorded in the errors of the
\* result and does not stop the batch: every artifact of the batch is
\* attempted, each one is installed (or found installed) or has its error,
\* and installPackages returns its result.
C37_FailureDoesNotStopBatch ==
  (hist.installInvoked /\ pc \in {"install", "lock", "done"}) =>
    /\ \A i \in Attempted :
         \/ paths[i] \in inst.okNow
         \/ \E e \in Range(inst.errors) : e.package = paths[i]
    /\ \A i \in Attempted :
         cache[paths[i]] # "complete" => \E e \in Range(inst.errors) : e.package = paths[i]
    /\ pc \in {"lock", "done"} =>
         /\ Attempted = 1..Len(paths)
         /\ result.errors = inst.errors
         /\ result.installed = inst.installed

\* an artifact of the batch failed and a later one was copied all the same
C37_Witness ==
  /\ pc = "done"
  /\ hist.installInvoked
  /\ \E i, j \in 1..Len(paths) :
       /\ i < j
       /\ cache[paths[i]] # "complete"
       /\ \E e \in Range(result.errors) : e.package = paths[i]
       /\ paths[j] \in Range(inst.copied)

\* -------------------------------------------- claims on the returned graph
\* C38: the graph that resolveDependencies returns is closed under
\* dependencies: every key listed in node.dependencies is the key of a node
\* of the graph (a name for the Node adapter, name@range for the Python one).
C38_GraphClosed ==
  rstate = "returned" =>
    \A i \in 1..Len(graph) :
      \A j \in 1..Len(graph[i].node.dependencies) :
        MapHas(graph, graph[i].node.dependencies[j])

\* ------------------------------------------- claims on registered adapters
\* What canHandle of each adapter, the third party's included, does on the
\* working directory.
AllDirectories == [{"node", "python", ThirdParty} -> {"true", "false", "throws"}]

\* ForgeCore as constructed, on a directory without installed packages; a
\* third-party adapter may be registered before the adapter is detected.
InitRegister ==
  /\ plugins = Plugins
  /\ plugin = "node"
  /\ manifest = EmptyManifest
  /\ graph = <<>>
  /\ queried = <<>>
  /\ visited = {}
  /\ resolving = {}
  /\ stack = <<>>
  /\ rstate = "idle"
  /\ rerr = ""
  /\ cycleHit = FALSE
  /\ failDepth = -1
  /\ failName = ""
  /\ pc = "idle"
  /\ opts = [format |-> "node", packages |-> <<>>, dryRun |-> FALSE]
  /\ cache = [p \in CachePaths |-> "absent"]
  /\ venv = TRUE
  /\ target = [f \in Formats |-> EmptyTarget]
  /\ lock = [f \in Formats |-> NoLock]
  /\ batch = <<>>
  /\ task = <<>>
  /\ paths = <<>>
  /\ inst = InitInst
  /\ result = NoResult
  /\ hist = [InitHist EXCEPT !.runs = MaxRuns - 1, !.snapTarget = target,
                              !.snapVenv = venv]
  /\ core = NoCore
  /\ registry = ForgeRegistry
  /\ sel = NoSel
  /\ found = NoSearch
  /\ config \in InitialConfigs
  /\ cwd \in AllDirectories
  /\ disk = [f \in Formats |-> IF cwd[f] = "true" THEN DiskManifests[f]
                               ELSE EmptyManifest]

NextRegister ==
  \/ registerPlugin(ThirdParty)
  \/ \E n \in {"B", "C"} : GetPackageInfo(n)
  \/ \E q \in PriorityChoices : setPluginPriority(q)

SpecRegister == InitRegister /\ [][NextRegister]_vars

\* the adapters whose canHandle the last detection called
Consulted == Range(core.viaPriority) \cup Range(core.viaRemaining)

\* C39: getPluginForDirectory answers that no adapter was found only after
\* the canHandle of every registered adapter was consulted, so no registered
\* adapter that can handle the directory is passed over, two adapters
\* registered under the same format name included.
C39_EveryAdapterConsulted ==
  (core.kind = "getPackageInfo" /\ core.error = "noplugin") =>
    \A p \in Range(plugins) : p \in Consulted /\ cwd[p] # "true"

\* ------------------------------------- claims on the versions of the graph
\* The dependency edges of a resolution: those of the root and those of
\* every resolved package.
Edges ==
  Range(allDependencies(manifest))
  \cup UNION {Range(graph[i].node.package.dependencies) : i \in 1..Len(graph)}

\* C40: in the graph the Node adapter returns, every edge that requests a
\* name with a constraint finds, stored under that name, a version that
\* satisfies the constraint, also when the name is requested under several
\* constraints.
C40_StoredVersionSatisfiesEdges ==
  (plugin = "node" /\ rstate = "returned") =>
    \A d \in Edges :
      \E k \in 1..Len(graph) :
        /\ graph[k].key = d.name
        /\ Satisfies(graph[k].node.package.version, d.versionRange)

====
